---- MODULE Spec2Model ----
(***************************************************************************)
(* Compiled-code management of the wasm engine (js/src/wasm/WasmCode.h):   *)
(* ThreadSafeCodeBlockMap (the double-buffered pc -> CodeBlock index) and  *)
(* the tier-2 hand-off of Code.                                            *)
(***************************************************************************)
EXTENDS Integers, Sequences, FiniteSets, TLC

\* ------------------------------------------------------------------ bounds
NumBlocks == 2
NumReaders == 1
NumWriters == 1
NumFuncImports == 1
NumFuncs == 2
NumThreads == 2
WordBits == 3
MaxClaims == 3
BufWords == 3

\* ------------------------------------------------------- CodeBlock (data)
Null == 0
Blocks == 1..NumBlocks
\* What a read of freed or out-of-bounds vector storage may yield besides a
\* block pointer.
Garbage == -1

\* A block whose range starts below that of block 1 and runs into it: what a
\* caller that breaks the no-overlap rule may hand to insert().
WideBlock == 11

\* CodeBlock::base(): the blocks own disjoint address ranges with gaps.
base(cb) == IF cb = WideBlock THEN 1 ELSE 2 * cb
\* CodeBlock::length()
length(cb) == IF cb = WideBlock THEN 2 ELSE 1

\* Mutant: a range that takes in the address one past its end.
containsCodePCInclusive(cb, pc) == pc >= base(cb) /\ pc <= base(cb) + length(cb)

\* CodeBlock::containsCodePC
containsCodePC(cb, pc) == pc >= base(cb) /\ pc < base(cb) + length(cb)

\* The addresses a lookup is asked about: below, inside, between and above
\* the blocks.
PCs == (base(1) - 1)..(base(NumBlocks) + length(NumBlocks))

Readers == 1..NumReaders
Writers == 1..NumWriters
Vectors == {"segments1_", "segments2_"}

\* enum class CodeBlockKind (the two tiers)
BaselineTier == 1
OptimizedTier == 2

\* The blocks of one Code: the shared stubs, the baseline tier and the
\* optimized tier handed to finishCompleteTier2.
SharedStubsBlock == 1
Tier1Block == 2
Tier2Block == 3
\* The addresses a metadata lookup of that Code is asked about.
CodePCs == (base(SharedStubsBlock) - 1)..(base(Tier2Block) + length(Tier2Block))

\* Function indices: the imports first, then the defined (exported) functions.
FuncIndices == 0..(NumFuncImports + NumFuncs - 1)
DefinedFuncs == NumFuncImports..(NumFuncImports + NumFuncs - 1)

Threads == 1..NumThreads
CompilerThread == NumThreads + 1

\* The entry of function f in the tier block of kind k, and of the lazy entry
\* stub generated for f against that block: distinct non-null code pointers.
FuncEntry(k, f) == 1000 * k + f
StubEntry(k, f) == 100 * k + f

\* ------------------------------------------------------------------ state
VARIABLES
  segments1,          \* RawCodeBlockVector segments1_
  segments2,          \* RawCodeBlockVector segments2_
  mutableCodeBlocks,  \* which vector mutableCodeBlocks_ points to
  readonlyCodeBlocks, \* which vector readonlyCodeBlocks_ points to
  numActiveLookups,   \* Atomic<size_t> numActiveLookups_
  mutatorsMutex,      \* the writer holding mutatorsMutex_, or Null
  aborted,            \* "no", or why the process crashed: "oom", "assert"
  wpc, wop, wcs, windex, wother, wret,                \* insert/remove frames
  rpc, rpcval, rsnap, rlow, rhigh, rindex, rresult, rlive  \* lookup frames

mapVars == <<segments1, segments2, mutableCodeBlocks, readonlyCodeBlocks,
             numActiveLookups, mutatorsMutex, aborted>>
writerVars == <<wpc, wop, wcs, windex, wother, wret>>
readerVars == <<rpc, rpcval, rsnap, rlow, rhigh, rindex, rresult, rlive>>

\* Code
VARIABLES
  sharedStubs,        \* const CodeBlock* sharedStubs_
  tier1,              \* const CodeBlock* tier1_
  tier2,              \* mutable const CodeBlock* tier2_
  hasTier2,           \* mutable Atomic<bool> hasTier2_
  dataLock,           \* the thread holding data_'s write guard, or Null
  lazyExports,        \* ProtectedData::lazyExports, sorted by funcIndex
  jit,                \* JumpTables::jit_
  tiering,            \* JumpTables::tiering_
  t2linked,           \* the tier-2 block's code is statically linked
  t2stubs,            \* the functions the tier-2 lazy stub block has stubs for
  cpc, cret,          \* the tier-2 compiler thread in finishCompleteTier2
  snapJit, snapLazy,  \* jit_ and lazyExports when finishCompleteTier2 was called
  snapLookup,         \* and what each pc's metadata lookup gave then
  epc, efunc, eobs, eret,  \* the executing threads' frames
  earlyReads,         \* the threads that read tier2_ without having seen hasTier2_
  racers,             \* the threads in a getOrCreateInterpEntry that found no stub
  jcall,              \* per thread, its direct Code::setJitEntryIfNull call: <<>> or
                      \* <<slot, target, whether the call stored>>
  segState,           \* one CodeSegment: "none", "live", or "aborted" by a release assert
  lengthBytes,        \* CodeSegment::lengthBytes_
  capacityBytes,      \* CodeSegment::capacityBytes_
  claims,             \* the successful claimSpace calls: <<claimedBase, bytes>>
  segReq,             \* the bytes asked by the claimSpace that aborted
  blkState,           \* one CodeBlock being built: "none", "building", "initialized",
                      \* "failed" (initialize returned false) or "aborted" (assertion)
  debugBuild,         \* whether the build defines DEBUG
  startFuncIndex,     \* FuncToCodeRangeMap::startFuncIndex_
  funcToCodeRange,    \* FuncToCodeRangeMap::funcToCodeRange_
  meta,               \* a metadata query: <<>>, or <<kind, pc, result, codeRange>>
  dataReaders,        \* the threads that hold a read guard of data_
  lstubs,             \* the lazy stub blocks in creation order: [func, seg, entry, state]
  t2seg,              \* the segment of the tier-2 block: "none", "writable", "patched", "executable", "registered"
  reloc,              \* a code buffer and its LinkData: <<>> or [stage, base, linkData, orig, buf]
  life,               \* where each CodeBlock object is in its life
  mapDestroyed,       \* whether ~ThreadSafeCodeBlockMap() has run
  sampler,            \* the writer whose thread a lookup interrupts, if any
  insertResult,       \* what the last FuncToCodeRangeMap::insert returned
  mode_,              \* JumpTables::mode_, "none" before initialize
  tieringCall         \* the arguments of the last setTieringEntry call

codeVars == <<sharedStubs, tier1, tier2, hasTier2, dataLock, lazyExports, jit,
              tiering, t2linked, t2stubs, cpc, cret, snapJit, snapLazy, snapLookup,
              epc, efunc, eobs, eret, earlyReads, racers, jcall,
              segState, lengthBytes, capacityBytes, claims, segReq,
              blkState, debugBuild, startFuncIndex, funcToCodeRange,
              meta,
    dataReaders,
    lstubs,
    t2seg,
    reloc,
    life,
    mapDestroyed,
    sampler,
    insertResult,
    mode_,
    tieringCall>>

Vec(v) == IF v = "segments1_" THEN segments1 ELSE segments2

SetVec(v, s) ==
  IF v = "segments1_"
  THEN segments1' = s /\ UNCHANGED segments2
  ELSE segments2' = s /\ UNCHANGED segments1

BlockSet(s) == {s[i] : i \in 1..Len(s)}

\* ------------------------------------------------------- pure helpers
\* CodeBlockPC::operator(): 0 inside the block, -1 below it, 1 above it.
CodeBlockPC(pc, cb) ==
  IF containsCodePC(cb, pc) THEN 0 ELSE IF pc < base(cb) THEN -1 ELSE 1

\* mozilla::BinarySearchIf over vec[low, high) (0-based indices), as called by
\* insert, remove and lookup: <<found, match or insertion point>>.
RECURSIVE BinarySearchIf(_, _, _, _)
BinarySearchIf(vec, low, high, pc) ==
  IF high = low THEN <<FALSE, low>>
  ELSE LET middle == low + ((high - low) \div 2)
           result == CodeBlockPC(pc, vec[middle + 1])
       IN IF result = 0 THEN <<TRUE, middle>>
          ELSE IF result < 0 THEN BinarySearchIf(vec, low, middle, pc)
          ELSE BinarySearchIf(vec, middle + 1, high, pc)

\* Vector::insert(begin() + index, cs)
VectorInsert(vec, index, cs) ==
  SubSeq(vec, 1, index) \o <<cs>> \o SubSeq(vec, index + 1, Len(vec))

\* Vector::erase(begin() + index)
VectorErase(vec, index) ==
  SubSeq(vec, 1, index) \o SubSeq(vec, index + 2, Len(vec))

\* (*readonly)[i] as a lookup reads it: the element, or, when the vector was
\* changed under the reader and i is past its end, whatever is in memory.
ReadElement(v, i) ==
  IF i < Len(Vec(v)) THEN {Vec(v)[i + 1]} ELSE Blocks \cup {Garbage}

\* The comparator's answer on what was read.
CompareRead(pc, cb) ==
  IF cb # Garbage THEN {CodeBlockPC(pc, cb)} ELSE {-1, 0, 1}

\* ------------------------------------------------------------------ Init
Init ==
  /\ segments1 = <<>>
  /\ segments2 = <<>>
  /\ mutableCodeBlocks = "segments1_"
  /\ readonlyCodeBlocks = "segments2_"
  /\ numActiveLookups = 0
  /\ mutatorsMutex = Null
  /\ aborted = "no"
  /\ wpc = [w \in Writers |-> "idle"]
  /\ wop = [w \in Writers |-> "none"]
  /\ wcs = [w \in Writers |-> Null]
  /\ windex = [w \in Writers |-> 0]
  /\ wother = [w \in Writers |-> 0]
  /\ wret = [w \in Writers |-> 0]
  /\ rpc = [r \in Readers |-> "idle"]
  /\ rpcval = [r \in Readers |-> 0]
  /\ rsnap = [r \in Readers |-> "none"]
  /\ rlow = [r \in Readers |-> 0]
  /\ rhigh = [r \in Readers |-> 0]
  /\ rindex = [r \in Readers |-> 0]
  /\ rresult = [r \in Readers |-> Null]
  /\ rlive = [r \in Readers |-> {}]
  /\ sharedStubs = Null
  /\ tier1 = Null
  /\ tier2 = Null
  /\ hasTier2 = FALSE
  /\ dataLock = Null
  /\ lazyExports = <<>>
  /\ jit = [f \in FuncIndices |-> Null]
  /\ tiering = [f \in FuncIndices |-> Null]
  /\ t2linked = FALSE
  /\ t2stubs = {}
  /\ cpc = "idle"
  /\ cret = "none"
  /\ snapJit = [f \in FuncIndices |-> Null]
  /\ snapLazy = <<>>
  /\ snapLookup = [pc \in CodePCs |-> Null]
  /\ epc = [t \in Threads |-> "idle"]
  /\ efunc = [t \in Threads |-> 0]
  /\ eobs = [t \in Threads |-> FALSE]
  /\ eret = [t \in Threads |-> Null]
  /\ earlyReads = {}
  /\ racers = {}
  /\ jcall = [t \in Threads |-> <<>>]
  /\ segState = "none"
  /\ lengthBytes = 0
  /\ capacityBytes = 0
  /\ claims = <<>>
  /\ segReq = 0
  /\ blkState = "none"
  /\ debugBuild = FALSE
  /\ startFuncIndex = 0
  /\ funcToCodeRange = <<>>
  /\ meta = <<>>
  /\ dataReaders = {}
  /\ lstubs = <<>>
  /\ t2seg = "none"
  /\ reloc = <<>>
  /\ life = [cb \in Blocks |-> "free"]
  /\ mapDestroyed = FALSE
  /\ sampler = [r \in Readers |-> Null]
  /\ insertResult = "none"
  /\ mode_ = "none"
  /\ tieringCall = <<>>

\* --------------------------------------------- ThreadSafeCodeBlockMap::lookup
\* Mutant: a lookup that does not count itself in numActiveLookups_.
LookupBeginNoIncrement(r, pc) ==
  /\ aborted = "no"
  /\ rpc[r] = "idle"
  /\ rpc' = [rpc EXCEPT ![r] = "load"]
  /\ rpcval' = [rpcval EXCEPT ![r] = pc]
  /\ rresult' = [rresult EXCEPT ![r] = Null]
  /\ UNCHANGED <<mapVars, writerVars, rsnap, rlow, rhigh, rindex, rlive>>
  /\ UNCHANGED codeVars

\* numActiveLookups_++ (the scope exit is armed before it).
LookupBegin(r, pc) ==
  /\ aborted = "no"
  /\ rpc[r] = "idle"
  /\ numActiveLookups' = numActiveLookups + 1
  /\ rpc' = [rpc EXCEPT ![r] = "load"]
  /\ rpcval' = [rpcval EXCEPT ![r] = pc]
  /\ rresult' = [rresult EXCEPT ![r] = Null]
  /\ UNCHANGED <<segments1, segments2, mutableCodeBlocks, readonlyCodeBlocks,
                 mutatorsMutex, aborted, writerVars,
                 rsnap, rlow, rhigh, rindex, rlive>>
  /\ UNCHANGED codeVars

\* Mutant: a lookup that synchronises with the writers' mutex before it reads
\* the published pointer.
LookupLoadLocked(r) ==
  /\ aborted = "no"
  /\ rpc[r] = "load"
  /\ mutatorsMutex = Null
  /\ rsnap' = [rsnap EXCEPT ![r] = readonlyCodeBlocks]
  /\ rlow' = [rlow EXCEPT ![r] = 0]
  /\ rhigh' = [rhigh EXCEPT ![r] = Len(Vec(readonlyCodeBlocks))]
  /\ rlive' = [rlive EXCEPT ![r] = BlockSet(Vec(readonlyCodeBlocks))]
  /\ rpc' = [rpc EXCEPT ![r] = "search"]
  /\ UNCHANGED <<mapVars, writerVars, rpcval, rindex, rresult>>
  /\ UNCHANGED codeVars

\* Mutant: a lookup that searches the vector the writers mutate.
LookupLoadMutable(r) ==
  /\ aborted = "no"
  /\ rpc[r] = "load"
  /\ rsnap' = [rsnap EXCEPT ![r] = mutableCodeBlocks]
  /\ rlow' = [rlow EXCEPT ![r] = 0]
  /\ rhigh' = [rhigh EXCEPT ![r] = Len(Vec(mutableCodeBlocks))]
  /\ rlive' = [rlive EXCEPT ![r] = BlockSet(Vec(mutableCodeBlocks))]
  /\ rpc' = [rpc EXCEPT ![r] = "search"]
  /\ UNCHANGED <<mapVars, writerVars, rpcval, rindex, rresult>>
  /\ UNCHANGED codeVars

\* const RawCodeBlockVector* readonly = readonlyCodeBlocks_; the search starts
\* on [0, readonly->length()).
LookupLoad(r) ==
  /\ aborted = "no"
  /\ rpc[r] = "load"
  /\ rsnap' = [rsnap EXCEPT ![r] = readonlyCodeBlocks]
  /\ rlow' = [rlow EXCEPT ![r] = 0]
  /\ rhigh' = [rhigh EXCEPT ![r] = Len(Vec(readonlyCodeBlocks))]
  /\ rlive' = [rlive EXCEPT ![r] = BlockSet(Vec(readonlyCodeBlocks))]
  /\ rpc' = [rpc EXCEPT ![r] = "search"]
  /\ UNCHANGED <<mapVars, writerVars, rpcval, rindex, rresult>>
  /\ UNCHANGED codeVars

\* One iteration of BinarySearchIf(*readonly, ...), or its end (its locals go
\* out of scope).
LookupSearch(r) ==
  /\ aborted = "no"
  /\ rpc[r] = "search"
  /\ IF rhigh[r] = rlow[r]
     THEN /\ rresult' = [rresult EXCEPT ![r] = Null]
          /\ rpc' = [rpc EXCEPT ![r] = "exit"]
          /\ rlow' = [rlow EXCEPT ![r] = 0]
          /\ rhigh' = [rhigh EXCEPT ![r] = 0]
          /\ UNCHANGED rindex
     ELSE LET middle == rlow[r] + ((rhigh[r] - rlow[r]) \div 2) IN
          \E cb \in ReadElement(rsnap[r], middle) :
          \E result \in CompareRead(rpcval[r], cb) :
            IF result = 0
            THEN /\ rindex' = [rindex EXCEPT ![r] = middle]
                 /\ rpc' = [rpc EXCEPT ![r] = "fetch"]
                 /\ rlow' = [rlow EXCEPT ![r] = 0]
                 /\ rhigh' = [rhigh EXCEPT ![r] = 0]
                 /\ UNCHANGED rresult
            ELSE IF result < 0
            THEN /\ rhigh' = [rhigh EXCEPT ![r] = middle]
                 /\ UNCHANGED <<rlow, rindex, rresult, rpc>>
            ELSE /\ rlow' = [rlow EXCEPT ![r] = middle + 1]
                 /\ UNCHANGED <<rhigh, rindex, rresult, rpc>>
  /\ UNCHANGED <<mapVars, writerVars, rpcval, rsnap, rlive>>
  /\ UNCHANGED codeVars

\* const CodeBlock* result = (*readonly)[index];
LookupFetch(r) ==
  /\ aborted = "no"
  /\ rpc[r] = "fetch"
  /\ \E cb \in ReadElement(rsnap[r], rindex[r]) :
       rresult' = [rresult EXCEPT ![r] = cb]
  /\ rindex' = [rindex EXCEPT ![r] = 0]
  /\ rpc' = [rpc EXCEPT ![r] = "exit"]
  /\ UNCHANGED <<mapVars, writerVars, rpcval, rsnap, rlow, rhigh, rlive>>
  /\ UNCHANGED codeVars

\* Mutant: a return that leaves the counter as it is.
LookupExitNoDecrement(r) ==
  /\ aborted = "no"
  /\ rpc[r] = "exit"
  /\ rpc' = [rpc EXCEPT ![r] = "idle"]
  /\ rpcval' = [rpcval EXCEPT ![r] = 0]
  /\ rsnap' = [rsnap EXCEPT ![r] = "none"]
  /\ rlow' = [rlow EXCEPT ![r] = 0]
  /\ rhigh' = [rhigh EXCEPT ![r] = 0]
  /\ rindex' = [rindex EXCEPT ![r] = 0]
  /\ rresult' = [rresult EXCEPT ![r] = Null]
  /\ rlive' = [rlive EXCEPT ![r] = {}]
  /\ UNCHANGED <<mapVars, writerVars>>
  /\ UNCHANGED codeVars

\* return: decObserver runs, numActiveLookups_--.
LookupExit(r) ==
  /\ aborted = "no"
  /\ rpc[r] = "exit"
  /\ numActiveLookups' = numActiveLookups - 1
  /\ rpc' = [rpc EXCEPT ![r] = "idle"]
  /\ rpcval' = [rpcval EXCEPT ![r] = 0]
  /\ rsnap' = [rsnap EXCEPT ![r] = "none"]
  /\ rlow' = [rlow EXCEPT ![r] = 0]
  /\ rhigh' = [rhigh EXCEPT ![r] = 0]
  /\ rindex' = [rindex EXCEPT ![r] = 0]
  /\ rresult' = [rresult EXCEPT ![r] = Null]
  /\ rlive' = [rlive EXCEPT ![r] = {}]
  /\ UNCHANGED <<segments1, segments2, mutableCodeBlocks, readonlyCodeBlocks,
                 mutatorsMutex, aborted, writerVars>>
  /\ UNCHANGED codeVars

\* ------------------------------------- callers of insert and remove
\* LockGuard<Mutex> lock(mutatorsMutex_) at the head of insert(cs): a caller
\* blocked on the mutex has done nothing yet, so the call starts when the lock
\* is taken. A block is registered by its owner once, when it is not in the map.
InsertLock(w, cs) ==
  /\ aborted = "no"
  /\ wpc[w] = "idle"
  /\ mutatorsMutex = Null
  /\ cs \notin BlockSet(Vec(mutableCodeBlocks))
  /\ mutatorsMutex' = w
  /\ wpc' = [wpc EXCEPT ![w] = "first"]
  /\ wop' = [wop EXCEPT ![w] = "insert"]
  /\ wcs' = [wcs EXCEPT ![w] = cs]
  /\ UNCHANGED <<segments1, segments2, mutableCodeBlocks, readonlyCodeBlocks,
                 numActiveLookups, aborted, windex, wother, wret, readerVars>>
  /\ UNCHANGED codeVars

\* LockGuard<Mutex> lock(mutatorsMutex_) at the head of remove(cs): a block is
\* unregistered by its owner once, when it is in the map.
RemoveLock(w, cs) ==
  /\ aborted = "no"
  /\ wpc[w] = "idle"
  /\ mutatorsMutex = Null
  /\ cs \in BlockSet(Vec(mutableCodeBlocks))
  /\ mutatorsMutex' = w
  /\ wpc' = [wpc EXCEPT ![w] = "first"]
  /\ wop' = [wop EXCEPT ![w] = "remove"]
  /\ wcs' = [wcs EXCEPT ![w] = cs]
  /\ UNCHANGED <<segments1, segments2, mutableCodeBlocks, readonlyCodeBlocks,
                 numActiveLookups, aborted, windex, wother, wret, readerVars>>
  /\ UNCHANGED codeVars

\* insert(cs) called with any block, whatever the map holds.
InsertCall(w, cs) ==
  /\ aborted = "no"
  /\ wpc[w] = "idle"
  /\ mutatorsMutex = Null
  /\ mutatorsMutex' = w
  /\ wpc' = [wpc EXCEPT ![w] = "first"]
  /\ wop' = [wop EXCEPT ![w] = "insert"]
  /\ wcs' = [wcs EXCEPT ![w] = cs]
  /\ UNCHANGED <<segments1, segments2, mutableCodeBlocks, readonlyCodeBlocks,
                 numActiveLookups, aborted, windex, wother, wret, readerVars>>
  /\ UNCHANGED codeVars

\* remove(cs) called with any block, whatever the map holds.
RemoveCall(w, cs) ==
  /\ aborted = "no"
  /\ wpc[w] = "idle"
  /\ mutatorsMutex = Null
  /\ mutatorsMutex' = w
  /\ wpc' = [wpc EXCEPT ![w] = "first"]
  /\ wop' = [wop EXCEPT ![w] = "remove"]
  /\ wcs' = [wcs EXCEPT ![w] = cs]
  /\ UNCHANGED <<segments1, segments2, mutableCodeBlocks, readonlyCodeBlocks,
                 numActiveLookups, aborted, windex, wother, wret, readerVars>>
  /\ UNCHANGED codeVars

\* The frame of a returned insert/remove, and the mutex released by the guard.
Return(w) ==
  /\ mutatorsMutex' = Null
  /\ wpc' = [wpc EXCEPT ![w] = "idle"]
  /\ wop' = [wop EXCEPT ![w] = "none"]
  /\ wcs' = [wcs EXCEPT ![w] = Null]
  /\ windex' = [windex EXCEPT ![w] = 0]
  /\ wother' = [wother EXCEPT ![w] = 0]
  /\ wret' = [wret EXCEPT ![w] = 0]

\* ------------------------------------- ThreadSafeCodeBlockMap::insert
\* Mutant: the new block appended instead of inserted at the search's index.
InsertFirstAppend(w) ==
  /\ aborted = "no"
  /\ wpc[w] = "first" /\ wop[w] = "insert"
  /\ LET vec == Vec(mutableCodeBlocks)
     IN /\ SetVec(mutableCodeBlocks, VectorInsert(vec, Len(vec), wcs[w]))
        /\ windex' = [windex EXCEPT ![w] = Len(vec)]
        /\ wpc' = [wpc EXCEPT ![w] = "swap"]
        /\ wret' = [wret EXCEPT ![w] = 1]
  /\ UNCHANGED <<mutableCodeBlocks, readonlyCodeBlocks, numActiveLookups,
                 mutatorsMutex, aborted, wop, wcs, wother, readerVars>>
  /\ UNCHANGED codeVars

\* Mutant: a failed first insertion that leaves the block in the vector.
InsertFirstFailDirty(w) ==
  /\ aborted = "no"
  /\ wpc[w] = "first" /\ wop[w] = "insert"
  /\ LET vec == Vec(mutableCodeBlocks)
         found == BinarySearchIf(vec, 0, Len(vec), base(wcs[w]))
     IN IF found[1]
        THEN \* MOZ_ALWAYS_FALSE
             /\ aborted' = "assert"
             /\ UNCHANGED <<segments1, segments2, mutatorsMutex, writerVars>>
        ELSE \E oom \in BOOLEAN :
             IF oom
             THEN /\ Return(w)
                  /\ SetVec(mutableCodeBlocks, VectorInsert(vec, found[2], wcs[w]))
                  /\ UNCHANGED aborted
             ELSE /\ SetVec(mutableCodeBlocks, VectorInsert(vec, found[2], wcs[w]))
                  /\ windex' = [windex EXCEPT ![w] = found[2]]
                  /\ wpc' = [wpc EXCEPT ![w] = "swap"]
                  /\ wret' = [wret EXCEPT ![w] = 1]
                  /\ UNCHANGED <<mutatorsMutex, aborted, wop, wcs, wother>>
  /\ UNCHANGED <<mutableCodeBlocks, readonlyCodeBlocks, numActiveLookups,
                 readerVars>>
  /\ UNCHANGED codeVars

\* The search for the insertion point and the insertion into
\* *mutableCodeBlocks_; a failed allocation returns false.
InsertFirst(w) ==
  /\ aborted = "no"
  /\ wpc[w] = "first" /\ wop[w] = "insert"
  /\ LET vec == Vec(mutableCodeBlocks)
         found == BinarySearchIf(vec, 0, Len(vec), base(wcs[w]))
     IN IF found[1]
        THEN \* MOZ_ALWAYS_FALSE
             /\ aborted' = "assert"
             /\ UNCHANGED <<segments1, segments2, mutatorsMutex, writerVars>>
        ELSE \E oom \in BOOLEAN :
             IF oom
             THEN \* return false;
                  /\ Return(w)
                  /\ UNCHANGED <<segments1, segments2, aborted>>
             ELSE /\ SetVec(mutableCodeBlocks, VectorInsert(vec, found[2], wcs[w]))
                  /\ windex' = [windex EXCEPT ![w] = found[2]]
                  /\ wpc' = [wpc EXCEPT ![w] = "swap"]
                  /\ wret' = [wret EXCEPT ![w] = 1]
                  /\ UNCHANGED <<mutatorsMutex, aborted, wop, wcs, wother>>
  /\ UNCHANGED <<mutableCodeBlocks, readonlyCodeBlocks, numActiveLookups,
                 readerVars>>
  /\ UNCHANGED codeVars

\* Mutant: a store that publishes the mutable vector and keeps it as the
\* mutable one.
SwapExchangePublishOnly(w) ==
  /\ aborted = "no"
  /\ wpc[w] = "swap"
  /\ readonlyCodeBlocks' = mutableCodeBlocks
  /\ wpc' = [wpc EXCEPT ![w] = "wait"]
  /\ UNCHANGED <<segments1, segments2, mutableCodeBlocks, numActiveLookups,
                 mutatorsMutex, aborted, wop, wcs, windex, wother, wret, readerVars>>
  /\ UNCHANGED codeVars

\* swapAndWait(): mutableCodeBlocks_ = readonlyCodeBlocks_.exchange(mutableCodeBlocks_)
SwapExchange(w) ==
  /\ aborted = "no"
  /\ wpc[w] = "swap"
  /\ mutableCodeBlocks' = readonlyCodeBlocks
  /\ readonlyCodeBlocks' = mutableCodeBlocks
  /\ wpc' = [wpc EXCEPT ![w] = "wait"]
  /\ UNCHANGED <<segments1, segments2, numActiveLookups, mutatorsMutex, aborted,
                 wop, wcs, windex, wother, wret, readerVars>>
  /\ UNCHANGED codeVars

\* Mutant: swapAndWait() that does not wait for the lookups to drain.
SwapWaitNoDrain(w) ==
  /\ aborted = "no"
  /\ wpc[w] = "wait"
  /\ wpc' = [wpc EXCEPT ![w] = "second"]
  /\ UNCHANGED <<mapVars, wop, wcs, windex, wother, wret, readerVars>>
  /\ UNCHANGED codeVars

\* swapAndWait(): while (numActiveLookups_ > 0) {} is left when the counter is
\* read as 0.
SwapWait(w) ==
  /\ aborted = "no"
  /\ wpc[w] = "wait"
  /\ numActiveLookups = 0
  /\ wpc' = [wpc EXCEPT ![w] = "second"]
  /\ UNCHANGED <<mapVars, wop, wcs, windex, wother, wret, readerVars>>
  /\ UNCHANGED codeVars

\* Mutant: a failed second insertion reported as a failed insert.
InsertSecondReturnsFalse(w) ==
  /\ aborted = "no"
  /\ wpc[w] = "second" /\ wop[w] = "insert"
  /\ LET vec == Vec(mutableCodeBlocks)
         found == BinarySearchIf(vec, 0, Len(vec), base(wcs[w]))
     IN IF found[1] \/ found[2] # windex[w]
        THEN /\ aborted' = "assert"
             /\ UNCHANGED <<segments1, segments2, mutatorsMutex, writerVars>>
        ELSE \E oom \in BOOLEAN :
             IF oom
             THEN /\ Return(w)
                  /\ UNCHANGED <<segments1, segments2, aborted>>
             ELSE /\ SetVec(mutableCodeBlocks,
                            VectorInsert(vec, windex[w], wcs[w]))
                  /\ wother' = [wother EXCEPT ![w] = found[2]]
                  /\ wpc' = [wpc EXCEPT ![w] = "return"]
                  /\ UNCHANGED <<mutatorsMutex, aborted, wop, wcs, windex, wret>>
  /\ UNCHANGED <<mutableCodeBlocks, readonlyCodeBlocks, numActiveLookups,
                 readerVars>>
  /\ UNCHANGED codeVars

\* The second search (otherIndex) and the insertion into what is now
\* *mutableCodeBlocks_, at index; a failed allocation crashes.
InsertSecond(w) ==
  /\ aborted = "no"
  /\ wpc[w] = "second" /\ wop[w] = "insert"
  /\ LET vec == Vec(mutableCodeBlocks)
         found == BinarySearchIf(vec, 0, Len(vec), base(wcs[w]))
     IN /\ wother' = [wother EXCEPT ![w] = found[2]]
        /\ IF found[1] \/ found[2] # windex[w]
           THEN \* MOZ_ALWAYS_FALSE, MOZ_ASSERT(index == otherIndex)
                /\ aborted' = "assert"
                /\ UNCHANGED <<segments1, segments2, wpc>>
           ELSE \E oom \in BOOLEAN :
                IF oom
                THEN \* oom.crash(...)
                     /\ aborted' = "oom"
                     /\ UNCHANGED <<segments1, segments2, wpc>>
                ELSE /\ SetVec(mutableCodeBlocks,
                               VectorInsert(vec, windex[w], wcs[w]))
                     /\ wpc' = [wpc EXCEPT ![w] = "return"]
                     /\ UNCHANGED aborted
  /\ UNCHANGED <<mutableCodeBlocks, readonlyCodeBlocks, numActiveLookups,
                 mutatorsMutex, wop, wcs, windex, wret, readerVars>>
  /\ UNCHANGED codeVars

\* return true;
InsertReturn(w) ==
  /\ aborted = "no"
  /\ wpc[w] = "return" /\ wop[w] = "insert"
  /\ Return(w)
  /\ UNCHANGED <<segments1, segments2, mutableCodeBlocks, readonlyCodeBlocks,
                 numActiveLookups, aborted, readerVars>>
  /\ UNCHANGED codeVars

\* ------------------------------------- ThreadSafeCodeBlockMap::remove
\* The search for cs and the erase from *mutableCodeBlocks_.
RemoveFirst(w) ==
  /\ aborted = "no"
  /\ wpc[w] = "first" /\ wop[w] = "remove"
  /\ LET vec == Vec(mutableCodeBlocks)
         found == BinarySearchIf(vec, 0, Len(vec), base(wcs[w]))
     IN IF ~found[1]
        THEN \* MOZ_ALWAYS_TRUE
             /\ aborted' = "assert"
             /\ UNCHANGED <<segments1, segments2, wpc, windex, wret>>
        ELSE /\ SetVec(mutableCodeBlocks, VectorErase(vec, found[2]))
             /\ windex' = [windex EXCEPT ![w] = found[2]]
             /\ wret' = [wret EXCEPT ![w] = Len(vec) - 1]
             /\ wpc' = [wpc EXCEPT ![w] = "swap"]
             /\ UNCHANGED aborted
  /\ UNCHANGED <<mutableCodeBlocks, readonlyCodeBlocks, numActiveLookups,
                 mutatorsMutex, wop, wcs, wother, readerVars>>
  /\ UNCHANGED codeVars

\* Mutant: remove() that forgets the erase from the second vector.
RemoveSecondSkip(w) ==
  /\ aborted = "no"
  /\ wpc[w] = "second" /\ wop[w] = "remove"
  /\ wother' = [wother EXCEPT ![w] = windex[w]]
  /\ wpc' = [wpc EXCEPT ![w] = "return"]
  /\ UNCHANGED <<mapVars, wop, wcs, windex, wret, readerVars>>
  /\ UNCHANGED codeVars

\* The second search (otherIndex) and the erase from what is now
\* *mutableCodeBlocks_, at index.
RemoveSecond(w) ==
  /\ aborted = "no"
  /\ wpc[w] = "second" /\ wop[w] = "remove"
  /\ LET vec == Vec(mutableCodeBlocks)
         found == BinarySearchIf(vec, 0, Len(vec), base(wcs[w]))
     IN /\ wother' = [wother EXCEPT ![w] = found[2]]
        /\ IF ~found[1] \/ found[2] # windex[w]
           THEN \* MOZ_ALWAYS_TRUE, MOZ_ASSERT(index == otherIndex)
                /\ aborted' = "assert"
                /\ UNCHANGED <<segments1, segments2, wpc>>
           ELSE /\ SetVec(mutableCodeBlocks, VectorErase(vec, windex[w]))
                /\ wpc' = [wpc EXCEPT ![w] = "return"]
                /\ UNCHANGED aborted
  /\ UNCHANGED <<mutableCodeBlocks, readonlyCodeBlocks, numActiveLookups,
                 mutatorsMutex, wop, wcs, windex, wret, readerVars>>
  /\ UNCHANGED codeVars

\* return newCodeBlockCount;
RemoveReturn(w) ==
  /\ aborted = "no"
  /\ wpc[w] = "return" /\ wop[w] = "remove"
  /\ Return(w)
  /\ UNCHANGED <<segments1, segments2, mutableCodeBlocks, readonlyCodeBlocks,
                 numActiveLookups, aborted, readerVars>>
  /\ UNCHANGED codeVars

\* =================================================================== Code
\* What the Code actions leave alone: in the map, the counters, the mutex and
\* the frames of the step-wise insert/remove/lookup above; and the frames of
\* the direct callers of the jump table and the CodeSegment of the claims.
mapFrame == <<numActiveLookups, mutatorsMutex, aborted, writerVars, readerVars, jcall,
              segState, lengthBytes, capacityBytes, claims, segReq,
              blkState, debugBuild, startFuncIndex, funcToCodeRange, meta,
    dataReaders,
    lstubs,
    t2seg,
    reloc,
    life,
    mapDestroyed,
    sampler,
    insertResult,
    mode_,
    tieringCall>>

\* ------------------------------------------------------------- JumpTables
\* Mutant: a store that loses its target.
setJitEntryNull(table, i, target) == [table EXCEPT ![i] = Null]

\* JumpTables::setJitEntry: a plain store.
setJitEntry(table, i, target) == [table EXCEPT ![i] = target]

\* Mutant: a store that does not compare.
setJitEntryIfNullStore(table, i, target) == [table EXCEPT ![i] = target]

\* JumpTables::setJitEntryIfNull: compare-and-swap from null.
setJitEntryIfNull(table, i, target) ==
  IF table[i] = Null THEN [table EXCEPT ![i] = target] ELSE table

\* Mutant: a tiering store that loses its target.
setTieringEntryNull(table, mode, i, target) ==
  IF mode = "Tier1" THEN [table EXCEPT ![i] = Null] ELSE table

\* Mutant: a tiering store in every compile mode.
setTieringEntryAnyMode(table, mode, i, target) == [table EXCEPT ![i] = target]

\* JumpTables::setTieringEntry: a store, in compile mode Tier1 only.
setTieringEntry(table, mode, i, target) ==
  IF mode = "Tier1" THEN [table EXCEPT ![i] = target] ELSE table

\* Code::mode_ of a module that tiers up.
CodeMode == "Tier1"

\* The compile modes a JumpTables can be initialized with.
CompileModes == {"Once", "Tier1", "Tier2"}

\* ------------------------------------------- the map as Code uses it
\* ThreadSafeCodeBlockMap::lookup(pc) run to its end on the published vector.
BlockMapLookup(pc) ==
  LET vec == Vec(readonlyCodeBlocks)
      found == BinarySearchIf(vec, 0, Len(vec), pc)
  IN IF found[1] THEN vec[found[2] + 1] ELSE Null

\* A vector after a completed insert(cs) / remove(cs): both vectors get the same
\* change, at the index the search gives.
InsertedVec(vec, cs) ==
  VectorInsert(vec, BinarySearchIf(vec, 0, Len(vec), base(cs))[2], cs)

RemovedVec(vec, cs) ==
  LET found == BinarySearchIf(vec, 0, Len(vec), base(cs))
  IN IF found[1] THEN VectorErase(vec, found[2]) ELSE vec

\* blockMap_.insert(cs) run to its end: one swapAndWait exchanges the pointers.
BlockMapInsert(cs) ==
  /\ segments1' = InsertedVec(segments1, cs)
  /\ segments2' = InsertedVec(segments2, cs)
  /\ mutableCodeBlocks' = readonlyCodeBlocks
  /\ readonlyCodeBlocks' = mutableCodeBlocks

\* blockMap_.remove(cs) run to its end.
BlockMapRemove(cs) ==
  /\ segments1' = RemovedVec(segments1, cs)
  /\ segments2' = RemovedVec(segments2, cs)
  /\ mutableCodeBlocks' = readonlyCodeBlocks
  /\ readonlyCodeBlocks' = mutableCodeBlocks

\* CodeBlock::lookupCallSite and its siblings: the entry of the block's table
\* for pc, a non-null pointer into the (immutable) block.
MetadataAt(block, pc) == 10 * block + (pc - base(block))

\* Code::lookupCallSite / lookupFuncRange / lookupStackMap / lookupTryNote /
\* lookupTrap / lookupUnwindInfo: the block that owns pc, whose tables are then
\* searched, or null.
CodeLookup(pc) ==
  LET block == BlockMapLookup(pc)
  IN IF block = Null THEN Null ELSE MetadataAt(block, pc)

\* ------------------------------------------------------------ lazyExports
LazyFuncs(exports) == {exports[i].funcIndex : i \in 1..Len(exports)}

\* The kind of the stub lazyExports records for f.
LazyKind(exports, f) ==
  LET i == CHOOSE i \in 1..Len(exports) : exports[i].funcIndex = f
  IN exports[i].funcKind

\* Mutant: the new LazyFuncExport appended.
LazyAppend(exports, f, k) == Append(exports, [funcIndex |-> f, funcKind |-> k])

\* lazyExports with a LazyFuncExport for f inserted at its sorted position.
LazyInsert(exports, f, k) ==
  LET n == Cardinality({i \in 1..Len(exports) : exports[i].funcIndex < f})
  IN SubSeq(exports, 1, n) \o <<[funcIndex |-> f, funcKind |-> k]>>
       \o SubSeq(exports, n + 1, Len(exports))

\* lazyExports with every entry retargeted to a stub for the optimized tier.
LazyUpgrade(exports) ==
  [i \in 1..Len(exports) |->
     [funcIndex |-> exports[i].funcIndex, funcKind |-> OptimizedTier]]

\* Mutant: a lookup that never finds the stub a concurrent caller recorded.
lookupLazyInterpEntryMiss(exports, f) == Null

\* Code::lookupLazyInterpEntry: the entry of the stub recorded for f, or null.
lookupLazyInterpEntry(exports, f) ==
  IF f \in LazyFuncs(exports) THEN StubEntry(LazyKind(exports, f), f) ELSE Null

\* --------------------------------------------------------- Code::initialize
\* Installs sharedStubs_ and tier1_, registers both blocks and initializes the
\* jump tables: tiering entries from tier 1, no jit entry yet.
CodeInitialize ==
  /\ tier1 = Null
  /\ sharedStubs' = SharedStubsBlock
  /\ tier1' = Tier1Block
  /\ segments1' = InsertedVec(InsertedVec(segments1, SharedStubsBlock), Tier1Block)
  /\ segments2' = InsertedVec(InsertedVec(segments2, SharedStubsBlock), Tier1Block)
  /\ tiering' = [f \in FuncIndices |->
                   IF f \in DefinedFuncs THEN FuncEntry(BaselineTier, f) ELSE Null]
  /\ UNCHANGED <<mutableCodeBlocks, readonlyCodeBlocks, mapFrame>>
  /\ UNCHANGED <<tier2, hasTier2, dataLock, lazyExports, jit, t2linked, t2stubs,
                 cpc, cret, snapJit, snapLazy, snapLookup, epc, efunc, eobs, eret, earlyReads, racers>>

\* -------------------------------------------------- the executing threads
\* Code::bestTier(): the optimized tier once hasTier2_ is set.
\* Mutant: a bestTier() that never sees tier 2.
bestTierStable == BaselineTier

\* Code::bestTier(): Optimized once hasTier2_ is true.
bestTier == IF hasTier2 THEN OptimizedTier ELSE BaselineTier

\* Code::codeBlock(tier): *tier2_ for the optimized tier, else *tier1_.
codeBlock(tier) == IF tier = OptimizedTier THEN tier2 ELSE tier1

\* CodeBlock::tier(): the tier of a tier block, from its kind.
CodeBlockTier(block) == IF block = Tier2Block THEN OptimizedTier ELSE BaselineTier

\* Code::stableTier(): the tier of tier1_.
stableTier == CodeBlockTier(tier1)

\* Code::funcCodeBlock(funcIndex): an import is in the shared stubs; otherwise
\* bestTier() reads hasTier2_.
FuncCodeBlockBegin(t, f) ==
  /\ tier1 # Null
  /\ epc[t] = "idle"
  /\ IF f < NumFuncImports
     THEN /\ eret' = [eret EXCEPT ![t] = sharedStubs]
          /\ epc' = [epc EXCEPT ![t] = "ret"]
          /\ UNCHANGED eobs
     ELSE /\ eobs' = [eobs EXCEPT ![t] = hasTier2]
          /\ epc' = [epc EXCEPT ![t] = "codeBlock"]
          /\ UNCHANGED eret
  /\ UNCHANGED <<segments1, segments2, mutableCodeBlocks, readonlyCodeBlocks, mapFrame>>
  /\ UNCHANGED <<sharedStubs, tier1, tier2, hasTier2, dataLock, lazyExports, jit,
                 tiering, t2linked, t2stubs, cpc, cret, snapJit, snapLazy, snapLookup,
                 efunc, earlyReads, racers>>

\* Mutant: codeBlock(bestTier()) that takes tier2_ whenever it is non-null.
FuncCodeBlockReadUngated(t) ==
  /\ epc[t] = "codeBlock"
  /\ IF tier2 # Null
     THEN /\ eret' = [eret EXCEPT ![t] = tier2]
          /\ earlyReads' = IF eobs[t] THEN earlyReads ELSE earlyReads \cup {t}
     ELSE /\ eret' = [eret EXCEPT ![t] = tier1]
          /\ UNCHANGED earlyReads
  /\ epc' = [epc EXCEPT ![t] = "ret"]
  /\ UNCHANGED <<segments1, segments2, mutableCodeBlocks, readonlyCodeBlocks, mapFrame>>
  /\ UNCHANGED <<sharedStubs, tier1, tier2, hasTier2, dataLock, lazyExports, jit,
                 tiering, t2linked, t2stubs, cpc, cret, snapJit, snapLazy, snapLookup,
                 efunc, eobs>>
  /\ UNCHANGED racers

\* codeBlock(bestTier()): *tier2_ if hasTier2_ was read as true, else *tier1_.
FuncCodeBlockRead(t) ==
  /\ epc[t] = "codeBlock"
  /\ IF eobs[t]
     THEN eret' = [eret EXCEPT ![t] = tier2]
     ELSE eret' = [eret EXCEPT ![t] = tier1]
  /\ epc' = [epc EXCEPT ![t] = "ret"]
  /\ UNCHANGED <<segments1, segments2, mutableCodeBlocks, readonlyCodeBlocks, mapFrame>>
  /\ UNCHANGED <<sharedStubs, tier1, tier2, hasTier2, dataLock, lazyExports, jit,
                 tiering, t2linked, t2stubs, cpc, cret, snapJit, snapLazy, snapLookup,
                 efunc, eobs, earlyReads, racers>>

\* Code::getOrCreateInterpEntry(funcIndex): the jit-entry slot is read without
\* the lock; a resolved slot is the fast path.
GetEntryBegin(t, f) ==
  /\ tier1 # Null
  /\ epc[t] = "idle"
  /\ efunc' = [efunc EXCEPT ![t] = f]
  /\ IF jit[f] # Null
     THEN /\ eret' = [eret EXCEPT ![t] = jit[f]]
          /\ epc' = [epc EXCEPT ![t] = "ret"]
          /\ UNCHANGED racers
     ELSE /\ epc' = [epc EXCEPT ![t] = "lock"]
          /\ racers' = racers \cup {t}
          /\ UNCHANGED eret
  /\ UNCHANGED <<segments1, segments2, mutableCodeBlocks, readonlyCodeBlocks, mapFrame>>
  /\ UNCHANGED <<sharedStubs, tier1, tier2, hasTier2, dataLock, lazyExports, jit,
                 tiering, t2linked, t2stubs, cpc, cret, snapJit, snapLazy, snapLookup,
                 eobs, earlyReads>>

\* Mutant: a write guard handed out without waiting for the holders of data_.
GetEntryLockNoWait(t) ==
  /\ epc[t] = "lock"
  /\ dataLock' = t
  /\ epc' = [epc EXCEPT ![t] = "create"]
  /\ UNCHANGED <<segments1, segments2, mutableCodeBlocks, readonlyCodeBlocks, mapFrame>>
  /\ UNCHANGED <<sharedStubs, tier1, tier2, hasTier2, lazyExports, jit,
                 tiering, t2linked, t2stubs, cpc, cret, snapJit, snapLazy, snapLookup,
                 efunc, eobs, eret, earlyReads, racers>>

\* auto guard = data_.writeLock();
GetEntryLock(t) ==
  /\ epc[t] = "lock"
  /\ dataLock = Null
  /\ dataReaders = {}
  /\ dataLock' = t
  /\ epc' = [epc EXCEPT ![t] = "create"]
  /\ UNCHANGED <<segments1, segments2, mutableCodeBlocks, readonlyCodeBlocks, mapFrame>>
  /\ UNCHANGED <<sharedStubs, tier1, tier2, hasTier2, lazyExports, jit,
                 tiering, t2linked, t2stubs, cpc, cret, snapJit, snapLazy, snapLookup,
                 efunc, eobs, eret, earlyReads, racers>>

\* Mutant: a failed creation that leaves the LazyFuncExport it had recorded.
GetEntryCreateLeavesExport(t) ==
  /\ epc[t] = "create"
  /\ LET f == efunc[t]
         k == bestTier
     IN IF lookupLazyInterpEntry(lazyExports, f) # Null
        THEN /\ eret' = [eret EXCEPT ![t] = lookupLazyInterpEntry(lazyExports, f)]
             /\ UNCHANGED <<lazyExports, jit>>
        ELSE \E oom \in BOOLEAN :
             IF oom
             THEN /\ lazyExports' = LazyInsert(lazyExports, f, k)
                  /\ eret' = [eret EXCEPT ![t] = Null]
                  /\ UNCHANGED jit
             ELSE /\ lazyExports' = LazyInsert(lazyExports, f, k)
                  /\ jit' = setJitEntryIfNull(jit, f, StubEntry(k, f))
                  /\ eret' = [eret EXCEPT ![t] = StubEntry(k, f)]
  /\ dataLock' = Null
  /\ epc' = [epc EXCEPT ![t] = "ret"]
  /\ UNCHANGED <<segments1, segments2, mutableCodeBlocks, readonlyCodeBlocks, mapFrame>>
  /\ UNCHANGED <<sharedStubs, tier1, tier2, hasTier2, tiering, t2linked, t2stubs,
                 cpc, cret, snapJit, snapLazy, snapLookup, efunc, eobs, earlyReads, racers>>

\* Under the guard: lookupLazyInterpEntry finds a concurrent winner's stub, or
\* createOneLazyEntryStub generates one against the best tier's block, records
\* its LazyFuncExport and installs its jit entry; an allocation failure returns
\* false. The guard is released on return.
GetEntryCreate(t) ==
  /\ epc[t] = "create"
  /\ LET f == efunc[t]
         k == bestTier
     IN IF lookupLazyInterpEntry(lazyExports, f) # Null
        THEN /\ eret' = [eret EXCEPT ![t] = lookupLazyInterpEntry(lazyExports, f)]
             /\ UNCHANGED <<lazyExports, jit>>
        ELSE \E oom \in BOOLEAN :
             IF oom
             THEN /\ eret' = [eret EXCEPT ![t] = Null]
                  /\ UNCHANGED <<lazyExports, jit>>
             ELSE /\ lazyExports' = LazyInsert(lazyExports, f, k)
                  /\ jit' = setJitEntryIfNull(jit, f, StubEntry(k, f))
                  /\ eret' = [eret EXCEPT ![t] = StubEntry(k, f)]
  /\ dataLock' = Null
  /\ epc' = [epc EXCEPT ![t] = "ret"]
  /\ UNCHANGED <<segments1, segments2, mutableCodeBlocks, readonlyCodeBlocks, mapFrame>>
  /\ UNCHANGED <<sharedStubs, tier1, tier2, hasTier2, tiering, t2linked, t2stubs,
                 cpc, cret, snapJit, snapLazy, snapLookup, efunc, eobs, earlyReads, racers>>

\* The call returns to the thread's caller.
ThreadReturn(t) ==
  /\ epc[t] = "ret"
  /\ epc' = [epc EXCEPT ![t] = "idle"]
  /\ efunc' = [efunc EXCEPT ![t] = 0]
  /\ eobs' = [eobs EXCEPT ![t] = FALSE]
  /\ eret' = [eret EXCEPT ![t] = Null]
  /\ racers' = racers \ {t}
  /\ UNCHANGED <<segments1, segments2, mutableCodeBlocks, readonlyCodeBlocks, mapFrame>>
  /\ UNCHANGED <<sharedStubs, tier1, tier2, hasTier2, dataLock, lazyExports, jit,
                 tiering, t2linked, t2stubs, cpc, cret, snapJit, snapLazy, snapLookup, earlyReads>>

\* ------------------------------------------- Code::finishCompleteTier2
\* The tier-2 compiler thread calls finishCompleteTier2(linkData, tier2Code),
\* once per Code: the new block is statically linked; a failure returns false.
FinishLink ==
  /\ tier1 # Null
  /\ cpc = "idle"
  /\ snapJit' = jit
  /\ snapLazy' = lazyExports
  /\ snapLookup' = [pc \in CodePCs |-> CodeLookup(pc)]
  /\ \E ok \in BOOLEAN :
       IF ok
       THEN t2linked' = TRUE /\ cpc' = "register" /\ UNCHANGED cret
       ELSE UNCHANGED t2linked /\ cpc' = "failed" /\ cret' = "false"
  /\ UNCHANGED <<segments1, segments2, mutableCodeBlocks, readonlyCodeBlocks, mapFrame>>
  /\ UNCHANGED <<sharedStubs, tier1, tier2, hasTier2, dataLock, lazyExports, jit,
                 tiering, t2stubs, epc, efunc, eobs, eret, earlyReads, racers>>

\* The block is registered in the ThreadSafeCodeBlockMap; a failure returns
\* false.
FinishRegister ==
  /\ cpc = "register"
  /\ \E ok \in BOOLEAN :
       IF ok
       THEN BlockMapInsert(Tier2Block) /\ cpc' = "lock" /\ UNCHANGED cret
       ELSE /\ cpc' = "failed"
            /\ cret' = "false"
            /\ UNCHANGED <<segments1, segments2, mutableCodeBlocks, readonlyCodeBlocks>>
  /\ UNCHANGED mapFrame
  /\ UNCHANGED <<sharedStubs, tier1, tier2, hasTier2, dataLock, lazyExports, jit,
                 tiering, t2linked, t2stubs, snapJit, snapLazy, snapLookup,
                 epc, efunc, eobs, eret, earlyReads, racers>>

\* auto guard = data_.writeLock();
FinishLock ==
  /\ cpc = "lock"
  /\ dataLock = Null
  /\ dataReaders = {}
  /\ dataLock' = CompilerThread
  /\ cpc' = "stubs"
  /\ UNCHANGED <<segments1, segments2, mutableCodeBlocks, readonlyCodeBlocks, mapFrame>>
  /\ UNCHANGED <<sharedStubs, tier1, tier2, hasTier2, lazyExports, jit,
                 tiering, t2linked, t2stubs, cret, snapJit, snapLazy, snapLookup,
                 epc, efunc, eobs, eret, earlyReads, racers>>

\* Mutant: a failed stub generation that has already retargeted lazyExports.
FinishCreateStubsDirtyFailure ==
  /\ cpc = "stubs"
  /\ lazyExports' = LazyUpgrade(lazyExports)
  /\ \E ok \in BOOLEAN :
       IF ok
       THEN /\ t2stubs' = LazyFuncs(lazyExports)
            /\ cpc' = "setTier2"
            /\ UNCHANGED <<cret, dataLock, segments1, segments2, mutableCodeBlocks,
                           readonlyCodeBlocks>>
       ELSE /\ dataLock' = Null
            /\ BlockMapRemove(Tier2Block)
            /\ cpc' = "failed"
            /\ cret' = "false"
            /\ UNCHANGED t2stubs
  /\ UNCHANGED mapFrame
  /\ UNCHANGED <<sharedStubs, tier1, tier2, hasTier2, jit, tiering, t2linked,
                 snapJit, snapLazy, snapLookup, epc, efunc, eobs, eret, earlyReads, racers>>

\* Mutant: a stub generation that reports success without having made the
\* stubs or retargeted the LazyFuncExports.
FinishCreateStubsNoUpgrade ==
  /\ cpc = "stubs"
  /\ \E ok \in BOOLEAN :
       IF ok
       THEN /\ UNCHANGED lazyExports
            /\ t2stubs' = {}
            /\ cpc' = "setTier2"
            /\ UNCHANGED <<cret, dataLock, segments1, segments2, mutableCodeBlocks,
                           readonlyCodeBlocks>>
       ELSE /\ dataLock' = Null
            /\ BlockMapRemove(Tier2Block)
            /\ cpc' = "failed"
            /\ cret' = "false"
            /\ UNCHANGED <<lazyExports, t2stubs>>
  /\ UNCHANGED mapFrame
  /\ UNCHANGED <<sharedStubs, tier1, tier2, hasTier2, jit, tiering, t2linked,
                 snapJit, snapLazy, snapLookup, epc, efunc, eobs, eret, earlyReads, racers>>

\* Mutant: a stub generation that installs the jit entries of its stubs.
FinishCreateStubsSetsJit ==
  /\ cpc = "stubs"
  /\ \E ok \in BOOLEAN :
       IF ok
       THEN /\ lazyExports' = LazyUpgrade(lazyExports)
            /\ t2stubs' = LazyFuncs(lazyExports)
            /\ jit' = [f \in FuncIndices |->
                         IF f \in LazyFuncs(lazyExports)
                         THEN StubEntry(OptimizedTier, f) ELSE jit[f]]
            /\ cpc' = "setTier2"
            /\ UNCHANGED <<cret, dataLock, segments1, segments2, mutableCodeBlocks,
                           readonlyCodeBlocks>>
       ELSE /\ dataLock' = Null
            /\ BlockMapRemove(Tier2Block)
            /\ cpc' = "failed"
            /\ cret' = "false"
            /\ UNCHANGED <<lazyExports, t2stubs, jit>>
  /\ UNCHANGED mapFrame
  /\ UNCHANGED <<sharedStubs, tier1, tier2, hasTier2, tiering, t2linked,
                 snapJit, snapLazy, snapLookup, epc, efunc, eobs, eret, earlyReads, racers>>

\* createTier2LazyEntryStubs(guard, tier2Code, &stubBlockIndex): one stub block
\* for all existing LazyFuncExports, which are retargeted to it; the jit entries
\* are not set here. A failure returns false: the guard is released and the
\* block, destroyed with the call's UniqueCodeBlock, is unregistered.
FinishCreateStubs ==
  /\ cpc = "stubs"
  /\ \E ok \in BOOLEAN :
       IF ok
       THEN /\ lazyExports' = LazyUpgrade(lazyExports)
            /\ t2stubs' = LazyFuncs(lazyExports)
            /\ cpc' = "setTier2"
            /\ UNCHANGED <<cret, dataLock, segments1, segments2, mutableCodeBlocks,
                           readonlyCodeBlocks>>
       ELSE /\ dataLock' = Null
            /\ BlockMapRemove(Tier2Block)
            /\ cpc' = "failed"
            /\ cret' = "false"
            /\ UNCHANGED <<lazyExports, t2stubs>>
  /\ UNCHANGED mapFrame
  /\ UNCHANGED <<sharedStubs, tier1, tier2, hasTier2, jit, tiering, t2linked,
                 snapJit, snapLazy, snapLookup, epc, efunc, eobs, eret, earlyReads, racers>>

\* Mutant: the assignment to tier2_ left out.
FinishSetTier2Skipped ==
  /\ cpc = "setTier2"
  /\ cpc' = "publish"
  /\ UNCHANGED <<segments1, segments2, mutableCodeBlocks, readonlyCodeBlocks, mapFrame>>
  /\ UNCHANGED <<sharedStubs, tier1, tier2, hasTier2, dataLock, lazyExports, jit,
                 tiering, t2linked, t2stubs, cret, snapJit, snapLazy, snapLookup,
                 epc, efunc, eobs, eret, earlyReads, racers>>

\* Mutant: the writer reads tier2_ back right after assigning it.
FinishSetTier2ReadBack ==
  /\ cpc = "setTier2"
  /\ tier2' = Tier2Block
  /\ earlyReads' = earlyReads \cup {CompilerThread}
  /\ cpc' = "publish"
  /\ UNCHANGED <<segments1, segments2, mutableCodeBlocks, readonlyCodeBlocks, mapFrame>>
  /\ UNCHANGED <<sharedStubs, tier1, hasTier2, dataLock, lazyExports, jit,
                 tiering, t2linked, t2stubs, cret, snapJit, snapLazy, snapLookup,
                 epc, efunc, eobs, eret>>
  /\ UNCHANGED racers

\* Mutant: the new block installed over tier1_ as well.
FinishSetTier2OverTier1 ==
  /\ cpc = "setTier2"
  /\ tier2' = Tier2Block
  /\ tier1' = Tier2Block
  /\ cpc' = "publish"
  /\ UNCHANGED <<segments1, segments2, mutableCodeBlocks, readonlyCodeBlocks, mapFrame>>
  /\ UNCHANGED <<sharedStubs, hasTier2, dataLock, lazyExports, jit,
                 tiering, t2linked, t2stubs, cret, snapJit, snapLazy, snapLookup,
                 epc, efunc, eobs, eret, earlyReads, racers>>

\* tier2_ = tier2Code.get(): Absent -> Building.
FinishSetTier2 ==
  /\ cpc = "setTier2"
  /\ tier2' = Tier2Block
  /\ cpc' = "publish"
  /\ UNCHANGED <<segments1, segments2, mutableCodeBlocks, readonlyCodeBlocks, mapFrame>>
  /\ UNCHANGED <<sharedStubs, tier1, hasTier2, dataLock, lazyExports, jit,
                 tiering, t2linked, t2stubs, cret, snapJit, snapLazy, snapLookup,
                 epc, efunc, eobs, eret, earlyReads, racers>>

\* hasTier2_ = true: Building -> Published.
FinishPublish ==
  /\ cpc = "publish"
  /\ hasTier2' = TRUE
  /\ cpc' = "jit"
  /\ UNCHANGED <<segments1, segments2, mutableCodeBlocks, readonlyCodeBlocks, mapFrame>>
  /\ UNCHANGED <<sharedStubs, tier1, tier2, dataLock, lazyExports, jit,
                 tiering, t2linked, t2stubs, cret, snapJit, snapLazy, snapLookup,
                 epc, efunc, eobs, eret, earlyReads, racers>>

\* The jit entries of the tier-2 lazy stubs are set, now that tier 2 is
\* committed; the guard is released.
FinishSetJitEntries ==
  /\ cpc = "jit"
  /\ jit' = [f \in FuncIndices |->
               IF f \in t2stubs
               THEN setJitEntry(jit, f, StubEntry(OptimizedTier, f))[f]
               ELSE jit[f]]
  /\ dataLock' = Null
  /\ cpc' = "tiering"
  /\ UNCHANGED <<segments1, segments2, mutableCodeBlocks, readonlyCodeBlocks, mapFrame>>
  /\ UNCHANGED <<sharedStubs, tier1, tier2, hasTier2, lazyExports,
                 tiering, t2linked, t2stubs, cret, snapJit, snapLazy, snapLookup,
                 epc, efunc, eobs, eret, earlyReads, racers>>

\* The tiering entries are pointed at the functions of *tier2_ (which the
\* thread reads here, after the commit); return true.
FinishSetTieringEntries ==
  /\ cpc = "tiering"
  /\ tiering' = [f \in FuncIndices |->
                   IF f \in DefinedFuncs /\ tier2 # Null
                   THEN setTieringEntry(tiering, CodeMode, f,
                                        FuncEntry(OptimizedTier, f))[f]
                   ELSE tiering[f]]
  /\ earlyReads' = IF hasTier2 THEN earlyReads ELSE earlyReads \cup {CompilerThread}
  /\ cret' = "true"
  /\ cpc' = "done"
  /\ UNCHANGED <<segments1, segments2, mutableCodeBlocks, readonlyCodeBlocks, mapFrame>>
  /\ UNCHANGED <<sharedStubs, tier1, tier2, hasTier2, dataLock, lazyExports, jit,
                 t2linked, t2stubs, snapJit, snapLazy, snapLookup, epc, efunc, eobs, eret>>
  /\ UNCHANGED racers

\* ------------------------------------ direct callers of the jit-entry table
\* Code::setJitEntryIfNull(i, target), called by thread t with the entry of a
\* stub of kind k it made for function i: one atomic compare-and-swap.
JumpSetJitEntryIfNull(t, i, k) ==
  /\ jcall[t] = <<>>
  /\ jit' = setJitEntryIfNull(jit, i, StubEntry(k, i))
  /\ jcall' = [jcall EXCEPT ![t] = <<i, StubEntry(k, i), jit'[i] # jit[i]>>]
  /\ UNCHANGED <<mapVars, writerVars, readerVars>>
  /\ UNCHANGED <<sharedStubs, tier1, tier2, hasTier2, dataLock, lazyExports,
                 tiering, t2linked, t2stubs, cpc, cret, snapJit, snapLazy, snapLookup,
                 epc, efunc, eobs, eret, earlyReads, racers>>
  /\ UNCHANGED <<segState, lengthBytes, capacityBytes, claims, segReq>>
  /\ UNCHANGED <<blkState, debugBuild, startFuncIndex, funcToCodeRange, meta, dataReaders, lstubs, t2seg, reloc, life, mapDestroyed, sampler, insertResult, mode_, tieringCall>>

\* The call returns.
JumpReturn(t) ==
  /\ jcall[t] # <<>>
  /\ jcall' = [jcall EXCEPT ![t] = <<>>]
  /\ UNCHANGED <<mapVars, writerVars, readerVars>>
  /\ UNCHANGED <<sharedStubs, tier1, tier2, hasTier2, dataLock, lazyExports, jit,
                 tiering, t2linked, t2stubs, cpc, cret, snapJit, snapLazy, snapLookup,
                 epc, efunc, eobs, eret, earlyReads, racers>>
  /\ UNCHANGED <<segState, lengthBytes, capacityBytes, claims, segReq>>
  /\ UNCHANGED <<blkState, debugBuild, startFuncIndex, funcToCodeRange, meta, dataReaders, lstubs, t2seg, reloc, life, mapDestroyed, sampler, insertResult, mode_, tieringCall>>

\* ------------------------------------------- the tables in every compile mode
\* What the calls on the jump tables leave alone.
jumpFrame ==
  <<sharedStubs, tier1, tier2, hasTier2, dataLock, lazyExports,
    t2linked, t2stubs, cpc, cret, snapJit, snapLazy, snapLookup,
    epc, efunc, eobs, eret, earlyReads, racers, jcall,
    segState, lengthBytes, capacityBytes, claims, segReq,
    blkState, debugBuild, startFuncIndex, funcToCodeRange, meta, dataReaders,
    lstubs, t2seg, reloc, life, mapDestroyed, sampler, insertResult>>

\* JumpTables::initialize(mode, sharedStubs, tier1): records the mode; the
\* tiering entries of the defined functions point into tier 1, and no jit entry
\* is installed yet.
JumpTablesInitialize(mode) ==
  /\ mode_ = "none"
  /\ mode_' = mode
  /\ tiering' = [f \in FuncIndices |->
                   IF f \in DefinedFuncs THEN FuncEntry(BaselineTier, f) ELSE Null]
  /\ UNCHANGED <<mapVars, writerVars, readerVars, jit, tieringCall, jumpFrame>>

\* JumpTables::setTieringEntry(i, target) on initialized tables.
JumpSetTieringEntry(i, target) ==
  /\ mode_ # "none"
  /\ tiering' = setTieringEntry(tiering, mode_, i, target)
  /\ tieringCall' = <<i, target>>
  /\ UNCHANGED <<mapVars, writerVars, readerVars, jit, mode_, jumpFrame>>

\* JumpTables::setJitEntry(i, target) on initialized tables.
JumpSetJitEntry(i, target) ==
  /\ mode_ # "none"
  /\ jit' = setJitEntry(jit, i, target)
  /\ UNCHANGED <<mapVars, writerVars, readerVars, tiering, mode_, tieringCall, jumpFrame>>

\* --------------------------------------- the map with no concurrent writer
\* The blocks registered and unregistered while no lookup runs.
CodeBlocks == {SharedStubsBlock, Tier1Block, Tier2Block}

\* What a writer that runs between the lookups leaves alone.
quietFrame ==
  <<sharedStubs, tier1, tier2, hasTier2, dataLock, lazyExports, jit, tiering,
    t2linked, t2stubs, cpc, cret, snapJit, snapLazy, snapLookup,
    epc, efunc, eobs, eret, earlyReads, racers>>

\* insert(cs) from its first line to its return, with no lookup in flight.
QuietInsert(cs) ==
  /\ aborted = "no"
  /\ \A r \in Readers : rpc[r] = "idle"
  /\ cs \notin BlockSet(Vec(readonlyCodeBlocks))
  /\ BlockMapInsert(cs)
  /\ UNCHANGED <<mapFrame, quietFrame>>

\* remove(cs) from its first line to its return, with no lookup in flight.
QuietRemove(cs) ==
  /\ aborted = "no"
  /\ \A r \in Readers : rpc[r] = "idle"
  /\ cs \in BlockSet(Vec(readonlyCodeBlocks))
  /\ BlockMapRemove(cs)
  /\ UNCHANGED <<mapFrame, quietFrame>>

\* ------------------------------------------------ readers of Code::data_
\* What taking and dropping a read guard leaves alone.
lockFrame ==
  <<mapVars, writerVars, readerVars, sharedStubs, tier1, tier2, hasTier2, dataLock,
    lazyExports, jit, tiering, t2linked, t2stubs, cpc, cret, snapJit, snapLazy,
    snapLookup, epc, efunc, eobs, eret, earlyReads, racers, jcall,
    segState, lengthBytes, capacityBytes, claims, segReq,
    blkState, debugBuild, startFuncIndex, funcToCodeRange, meta,
    lstubs,
    t2seg,
    reloc,
    life,
    mapDestroyed,
    sampler,
    insertResult,
    mode_,
    tieringCall>>

\* auto guard = data_.readLock(): a query of the protected set waits for the
\* writer and shares the guard with the other readers.
DataReadLock(t) ==
  /\ tier1 # Null
  /\ epc[t] = "idle"
  /\ t \notin dataReaders
  /\ dataLock = Null
  /\ dataReaders' = dataReaders \cup {t}
  /\ UNCHANGED lockFrame

\* The read guard goes out of scope.
DataReadUnlock(t) ==
  /\ t \in dataReaders
  /\ dataReaders' = dataReaders \ {t}
  /\ UNCHANGED lockFrame

\* ------------------------------------- linking before publication
\* What the steps that build and publish code leave alone.
linkFrame ==
  <<mapVars, writerVars, readerVars, sharedStubs, tier1, tier2, hasTier2, dataLock,
    lazyExports, tiering, t2linked, t2stubs, cpc, cret, snapJit, snapLazy,
    snapLookup, epc, efunc, eobs, eret, earlyReads, racers, jcall,
    segState, lengthBytes, capacityBytes, claims, segReq,
    blkState, debugBuild, startFuncIndex, funcToCodeRange, meta, dataReaders,
    reloc,
    life,
    mapDestroyed,
    sampler,
    insertResult,
    mode_,
    tieringCall>>

\* The functions that have a lazy stub block, finished or not.
StubbedFuncs == {lstubs[i].func : i \in 1..Len(lstubs)}

\* Whether a stub block is being built: the write guard admits one builder.
StubInProgress ==
  lstubs # <<>> /\ lstubs[Len(lstubs)].state # "published"

\* The lazy-stub segments in use.
StubSegments == {lstubs[i].seg : i \in 1..Len(lstubs)}

\* The state of the last stub block set to st.
LastStubState(st) ==
  [lstubs EXCEPT ![Len(lstubs)] = [@ EXCEPT !.state = st]]

\* Mutant: the jit-entry slot stored as soon as the range of the stub is claimed.
StubClaimStoresSlot(f, fresh) ==
  /\ ~StubInProgress
  /\ f \notin StubbedFuncs
  /\ LET seg == IF fresh \/ lstubs = <<>>
                THEN Cardinality(StubSegments) + 1
                ELSE lstubs[Len(lstubs)].seg
         k == IF t2seg = "registered" THEN OptimizedTier ELSE BaselineTier
     IN /\ lstubs' = Append(lstubs, [func |-> f, seg |-> seg,
                                     entry |-> StubEntry(k, f), state |-> "writable"])
        /\ jit' = setJitEntryIfNull(jit, f, StubEntry(k, f))
  /\ UNCHANGED <<t2seg, linkFrame>>

\* createOneLazyEntryStub, first part: the stub of f is generated into a range
\* claimed from the last lazy-stub segment (hasSpace) or into a new segment
\* (fresh); the range is writable for the generating thread.
StubClaim(f, fresh) ==
  /\ ~StubInProgress
  /\ f \notin StubbedFuncs
  /\ LET seg == IF fresh \/ lstubs = <<>>
                THEN Cardinality(StubSegments) + 1
                ELSE lstubs[Len(lstubs)].seg
         k == IF t2seg = "registered" THEN OptimizedTier ELSE BaselineTier
     IN lstubs' = Append(lstubs, [func |-> f, seg |-> seg,
                                 entry |-> StubEntry(k, f), state |-> "writable"])
  /\ UNCHANGED <<jit, t2seg, linkFrame>>

\* StaticallyLink(writable, base, linkData, maybeSharedStubs) on the range of
\* the stub; a failure drops the stub.
StubLink(ok) ==
  /\ StubInProgress
  /\ lstubs[Len(lstubs)].state = "writable"
  /\ lstubs' = IF ok THEN LastStubState("patched")
               ELSE SubSeq(lstubs, 1, Len(lstubs) - 1)
  /\ UNCHANGED <<jit, t2seg, linkFrame>>

\* The range is made executable again.
StubMakeExecutable ==
  /\ StubInProgress
  /\ lstubs[Len(lstubs)].state = "patched"
  /\ lstubs' = LastStubState("executable")
  /\ UNCHANGED <<jit, t2seg, linkFrame>>

\* Mutant: the stub published while its range is still writable.
StubPublishEarly ==
  /\ StubInProgress
  /\ lstubs[Len(lstubs)].state \in {"patched", "executable"}
  /\ lstubs' = LastStubState("published")
  /\ jit' = setJitEntryIfNull(jit, lstubs[Len(lstubs)].func, lstubs[Len(lstubs)].entry)
  /\ UNCHANGED <<t2seg, linkFrame>>

\* The stub block is registered and recorded, and its jit entry is stored:
\* other threads can now reach the stub.
StubPublish ==
  /\ StubInProgress
  /\ lstubs[Len(lstubs)].state = "executable"
  /\ lstubs' = LastStubState("published")
  /\ jit' = setJitEntryIfNull(jit, lstubs[Len(lstubs)].func, lstubs[Len(lstubs)].entry)
  /\ UNCHANGED <<t2seg, linkFrame>>

\* CodeSegment::createFromMasm and linkAndMakeExecutable for the tier-2 block,
\* then its registration in the map: one step along
\* allocate (writable) -> StaticallyLink -> make executable -> register.
Tier2SegmentStep ==
  /\ t2seg # "registered"
  /\ t2seg' = CASE t2seg = "none" -> "writable"
                [] t2seg = "writable" -> "patched"
                [] t2seg = "patched" -> "executable"
                [] t2seg = "executable" -> "registered"
  /\ UNCHANGED <<jit, lstubs, linkFrame>>

\* ------------------------------------------------ Code metadata lookups
MetaKinds ==
  {"lookup", "lookupCallSite", "lookupFuncRange", "lookupStackMap",
   "lookupTryNote", "lookupTrap", "lookupUnwindInfo"}

\* What a metadata query leaves alone.
metaFrame ==
  <<mapVars, writerVars, readerVars, sharedStubs, tier1, tier2, hasTier2, dataLock,
    lazyExports, jit, tiering, t2linked, t2stubs, cpc, cret, snapJit, snapLazy,
    snapLookup, epc, efunc, eobs, eret, earlyReads, racers, jcall,
    segState, lengthBytes, capacityBytes, claims, segReq,
    blkState, debugBuild, startFuncIndex, funcToCodeRange,
    dataReaders,
    lstubs,
    t2seg,
    reloc,
    life,
    mapDestroyed,
    sampler,
    insertResult,
    mode_,
    tieringCall>>

\* Mutant: the block's table searched without the test of the block pointer.
CodeMetadataLookupUnchecked(kind, pc, hasEntry, isFunction) ==
  LET block == BlockMapLookup(pc)
      entry == IF hasEntry THEN MetadataAt(block, pc) ELSE Null
  IN IF kind = "lookup" THEN <<block, entry>>
     ELSE IF kind = "lookupFuncRange"
     THEN <<IF entry # Null /\ isFunction THEN entry ELSE Null, Garbage>>
     ELSE IF kind = "lookupTryNote" THEN <<entry, block>>
     ELSE IF kind = "lookupTrap" THEN <<hasEntry, Garbage>>
     ELSE <<entry, Garbage>>

\* ThreadSafeCodeBlockMap::lookup(pc, &codeRange) and Code::lookupCallSite,
\* lookupFuncRange, lookupStackMap, lookupTryNote, lookupTrap, lookupUnwindInfo:
\* <<the value returned, the out-parameter>>.  hasEntry: whether the table of
\* the owning block has an entry for pc; isFunction: CodeRange::isFunction() of
\* its code range.  An out-parameter that is not written keeps what it held.
CodeMetadataLookup(kind, pc, hasEntry, isFunction) ==
  LET block == BlockMapLookup(pc)
      entry == IF hasEntry THEN MetadataAt(block, pc) ELSE Null
  IN IF kind = "lookup"
     THEN IF block = Null THEN <<Null, Null>> ELSE <<block, entry>>
     ELSE IF kind = "lookupTryNote"
     THEN IF block = Null THEN <<Null, Null>> ELSE <<entry, block>>
     ELSE IF kind = "lookupTrap"
     THEN IF block = Null THEN <<FALSE, Garbage>> ELSE <<hasEntry, Garbage>>
     ELSE IF block = Null THEN <<Null, Garbage>>
     ELSE IF kind = "lookupFuncRange"
     THEN <<IF entry # Null /\ isFunction THEN entry ELSE Null, Garbage>>
     ELSE <<entry, Garbage>>

\* A thread asks for the metadata of pc.
MetaLookup(kind, pc, hasEntry, isFunction) ==
  /\ meta = <<>>
  /\ LET got == CodeMetadataLookup(kind, pc, hasEntry, isFunction)
     IN meta' = <<kind, pc, got[1], got[2]>>
  /\ UNCHANGED metaFrame

\* The caller is done with the answer.
MetaReturn ==
  /\ meta # <<>>
  /\ meta' = <<>>
  /\ UNCHANGED metaFrame

\* ------------------------------------------------------------ CodeSegment
\* uint32_t (lengthBytes_, capacityBytes_) and size_t (the bytes asked for),
\* scaled down to WordBits and 2 * WordBits bits; sizes count pages.
U32Mod == 2 ^ WordBits
SizeMod == 2 ^ (2 * WordBits)
Capacities == 0..(U32Mod - 1)
Sizes == 0..(2 * U32Mod - 1)

\* CodeSegment::base(): bytes_.get(), somewhere in the address space.
SegBase == 100

\* Mutant: the free space computed without testing bytes against the capacity
\* first, so that the size_t subtraction wraps.
hasSpaceUnderflow(bytes) ==
  lengthBytes <= (capacityBytes - bytes) % SizeMod

\* Mutant: the free space tested with a sum in uint32_t.
hasSpaceSum32(bytes) ==
  (lengthBytes + bytes) % U32Mod <= capacityBytes

\* CodeSegment::hasSpace(bytes): both comparisons and the subtraction are in
\* size_t.
hasSpace(bytes) ==
  bytes <= capacityBytes /\ lengthBytes <= (capacityBytes - bytes) % SizeMod

\* What the other CodeSegment steps leave alone.
segFrame ==
  <<mapVars, writerVars, readerVars, sharedStubs, tier1, tier2, hasTier2, dataLock,
    lazyExports, jit, tiering, t2linked, t2stubs, cpc, cret, snapJit, snapLazy,
    snapLookup, epc, efunc, eobs, eret, earlyReads, racers, jcall,
    blkState, debugBuild, startFuncIndex, funcToCodeRange, meta,
    dataReaders,
    lstubs,
    t2seg,
    reloc,
    life,
    mapDestroyed,
    sampler,
    insertResult,
    mode_,
    tieringCall>>

\* CodeSegment::createEmpty(capacityBytes): a segment with zero used length.
SegCreateEmpty(cap) ==
  /\ segState = "none"
  /\ segState' = "live"
  /\ lengthBytes' = 0
  /\ capacityBytes' = cap
  /\ UNCHANGED <<claims, segReq, segFrame>>

\* Mutant: a claim that hands out the space without advancing lengthBytes_.
ClaimSpaceNoAdvance(bytes) ==
  /\ segState = "live"
  /\ Len(claims) < MaxClaims
  /\ IF hasSpace(bytes)
     THEN /\ claims' = Append(claims, <<SegBase + lengthBytes, bytes>>)
          /\ UNCHANGED <<segState, segReq, lengthBytes>>
     ELSE /\ segState' = "aborted"
          /\ segReq' = bytes
          /\ UNCHANGED <<lengthBytes, claims>>
  /\ UNCHANGED <<capacityBytes, segFrame>>

\* CodeSegment::claimSpace(bytes, &claimedBase): MOZ_RELEASE_ASSERT(hasSpace),
\* *claimedBase = base() + lengthBytes_, lengthBytes_ += bytes (in uint32_t).
ClaimSpace(bytes) ==
  /\ segState = "live"
  /\ Len(claims) < MaxClaims
  /\ IF hasSpace(bytes)
     THEN /\ claims' = Append(claims, <<SegBase + lengthBytes, bytes>>)
          /\ lengthBytes' = (lengthBytes + bytes) % U32Mod
          /\ UNCHANGED <<segState, segReq>>
     ELSE /\ segState' = "aborted"
          /\ segReq' = bytes
          /\ UNCHANGED <<lengthBytes, claims>>
  /\ UNCHANGED <<capacityBytes, segFrame>>

\* ----------------------------------------------------- FuncToCodeRangeMap
\* BAD_CODE_RANGE = UINT32_MAX, the sentinel of an unfilled slot.
BAD_CODE_RANGE == U32Mod - 1

\* The indices into CodeBlock::codeRanges a builder inserts.
CodeRangeIndices == 0..NumFuncs

\* What the steps on the block being built leave alone.
blkFrame ==
  <<mapVars, writerVars, readerVars, sharedStubs, tier1, tier2, hasTier2, dataLock,
    lazyExports, jit, tiering, t2linked, t2stubs, cpc, cret, snapJit, snapLazy,
    snapLookup, epc, efunc, eobs, eret, earlyReads, racers, jcall,
    segState, lengthBytes, capacityBytes, claims, segReq, meta,
    dataReaders,
    lstubs,
    t2seg,
    reloc,
    life,
    mapDestroyed,
    sampler,
    mode_,
    tieringCall>>

\* FuncToCodeRangeMap::denseHasFuncIndex(funcIndex)
denseHasFuncIndex(funcIndex) ==
  funcIndex >= startFuncIndex /\ funcIndex - startFuncIndex < Len(funcToCodeRange)

\* FuncToCodeRangeMap::lookup(funcIndex)
FuncToCodeRangeLookup(funcIndex) ==
  IF ~denseHasFuncIndex(funcIndex)
  THEN BAD_CODE_RANGE
  ELSE funcToCodeRange[funcIndex - startFuncIndex + 1]

\* FuncToCodeRangeMap::createDense(startFuncIndex, numFuncs, &result): every
\* slot starts as BAD_CODE_RANGE.  The build is chosen here.
CreateDense(start, numFuncs, dbg) ==
  /\ blkState = "none"
  /\ blkState' = "building"
  /\ debugBuild' = dbg
  /\ startFuncIndex' = start
  /\ funcToCodeRange' = [i \in 1..numFuncs |-> BAD_CODE_RANGE]
  /\ UNCHANGED <<insertResult, blkFrame>>

\* Mutant: the slot addressed by the function index itself, not offset by the
\* start index.
FuncToCodeRangeInsertUnoffset(funcIndex, codeRangeIndex) ==
  /\ blkState = "building"
  /\ funcToCodeRange' =
       IF ~denseHasFuncIndex(funcIndex)
       THEN funcToCodeRange
       ELSE [funcToCodeRange EXCEPT ![funcIndex + 1] = codeRangeIndex]
  /\ insertResult' = IF denseHasFuncIndex(funcIndex) THEN "true" ELSE "false"
  /\ UNCHANGED <<blkState, debugBuild, startFuncIndex, blkFrame>>

\* FuncToCodeRangeMap::insert(funcIndex, codeRangeIndex): false, and nothing
\* stored, for an index outside the dense range.
FuncToCodeRangeInsert(funcIndex, codeRangeIndex) ==
  /\ blkState = "building"
  /\ funcToCodeRange' =
       IF ~denseHasFuncIndex(funcIndex)
       THEN funcToCodeRange
       ELSE [funcToCodeRange EXCEPT ![funcIndex - startFuncIndex + 1] = codeRangeIndex]
  /\ insertResult' = IF denseHasFuncIndex(funcIndex) THEN "true" ELSE "false"
  /\ UNCHANGED <<blkState, debugBuild, startFuncIndex, blkFrame>>

\* Mutant: the assertion of a build that checks nothing.
assertAllInitializedNoop(dbg, map) == TRUE

\* FuncToCodeRangeMap::assertAllInitialized(): whether the call returns.  The
\* loop and its MOZ_ASSERT are inside #ifdef DEBUG.
assertAllInitialized(dbg, map) ==
  dbg => \A i \in 1..Len(map) : map[i] # BAD_CODE_RANGE

\* CodeBlock::initialize(code): asserts the internal invariants and binds the
\* back-reference to the Code; it may fail.
CodeBlockInitialize(ok) ==
  /\ blkState = "building"
  /\ blkState' = IF ~assertAllInitialized(debugBuild, funcToCodeRange) THEN "aborted"
                 ELSE IF ok THEN "initialized" ELSE "failed"
  /\ UNCHANGED <<debugBuild, startFuncIndex, funcToCodeRange, insertResult, blkFrame>>

vars == <<mapVars, writerVars, readerVars, codeVars>>

Next ==
  \/ \E r \in Readers, pc \in PCs : LookupBegin(r, pc)
  \/ \E r \in Readers : LookupLoad(r)
  \/ \E r \in Readers : LookupSearch(r)
  \/ \E r \in Readers : LookupFetch(r)
  \/ \E r \in Readers : LookupExit(r)
  \/ \E w \in Writers, cs \in Blocks : InsertLock(w, cs)
  \/ \E w \in Writers, cs \in Blocks : RemoveLock(w, cs)
  \/ \E w \in Writers : InsertFirst(w)
  \/ \E w \in Writers : SwapExchange(w)
  \/ \E w \in Writers : SwapWait(w)
  \/ \E w \in Writers : InsertSecond(w)
  \/ \E w \in Writers : InsertReturn(w)
  \/ \E w \in Writers : RemoveFirst(w)
  \/ \E w \in Writers : RemoveSecond(w)
  \/ \E w \in Writers : RemoveReturn(w)

Spec == Init /\ [][Next]_vars

\* Callers that do not keep the rules of the map: blocks that overlap, blocks
\* inserted twice, blocks removed that are not there.
AnyBlocks == Blocks \cup {WideBlock}

OverlapNext ==
  \/ \E w \in Writers, cs \in AnyBlocks : InsertCall(w, cs)
  \/ \E w \in Writers, cs \in AnyBlocks : RemoveCall(w, cs)
  \/ \E w \in Writers : InsertFirst(w)
  \/ \E w \in Writers : SwapExchange(w)
  \/ \E w \in Writers : SwapWait(w)
  \/ \E w \in Writers : InsertSecond(w)
  \/ \E w \in Writers : InsertReturn(w)
  \/ \E w \in Writers : RemoveFirst(w)
  \/ \E w \in Writers : RemoveSecond(w)
  \/ \E w \in Writers : RemoveReturn(w)

OverlapSpec == Init /\ [][OverlapNext]_vars

\* The steps of one reader thread, which keeps issuing lookups.
ReaderStep(r) ==
  \/ \E pc \in PCs : LookupBegin(r, pc)
  \/ LookupLoad(r) \/ LookupSearch(r) \/ LookupFetch(r) \/ LookupExit(r)

\* The steps of one writer thread.  An iteration of the loop of swapAndWait()
\* that reads a non-zero counter changes nothing; SwapWait is the one that reads 0.
WriterStep(w) ==
  \/ \E cs \in Blocks : InsertLock(w, cs) \/ RemoveLock(w, cs)
  \/ InsertFirst(w) \/ SwapExchange(w) \/ SwapWait(w) \/ InsertSecond(w)
  \/ InsertReturn(w) \/ RemoveFirst(w) \/ RemoveSecond(w) \/ RemoveReturn(w)

\* Fair scheduling: a thread whose next step stays possible takes it.
FairSpec ==
  /\ Spec
  /\ \A r \in Readers : WF_vars(ReaderStep(r))
  /\ \A w \in Writers : WF_vars(WriterStep(w))

CodeNext ==
  \/ CodeInitialize
  \/ \E t \in Threads, f \in FuncIndices : FuncCodeBlockBegin(t, f)
  \/ \E t \in Threads : FuncCodeBlockRead(t)
  \/ \E t \in Threads, f \in DefinedFuncs : GetEntryBegin(t, f)
  \/ \E t \in Threads : GetEntryLock(t)
  \/ \E t \in Threads : GetEntryCreate(t)
  \/ \E t \in Threads : ThreadReturn(t)
  \/ FinishLink
  \/ FinishRegister
  \/ FinishLock
  \/ FinishCreateStubs
  \/ FinishSetTier2
  \/ FinishPublish
  \/ FinishSetJitEntries
  \/ FinishSetTieringEntries

CodeSpec == Init /\ [][CodeNext]_vars

JumpNext ==
  \/ \E t \in Threads, i \in DefinedFuncs, k \in {BaselineTier, OptimizedTier} :
       JumpSetJitEntryIfNull(t, i, k)
  \/ \E t \in Threads : JumpReturn(t)

JumpSpec == Init /\ [][JumpNext]_vars

SegNext ==
  \/ \E cap \in Capacities : SegCreateEmpty(cap)
  \/ \E bytes \in Sizes : ClaimSpace(bytes)

SegSpec == Init /\ [][SegNext]_vars

QuietNext ==
  \/ \E cs \in CodeBlocks : QuietInsert(cs)
  \/ \E cs \in CodeBlocks : QuietRemove(cs)
  \/ \E r \in Readers, pc \in CodePCs : LookupBegin(r, pc)
  \/ \E r \in Readers : LookupLoad(r)
  \/ \E r \in Readers : LookupSearch(r)
  \/ \E r \in Readers : LookupFetch(r)
  \/ \E r \in Readers : LookupExit(r)

QuietSpec == Init /\ [][QuietNext]_vars

LockNext ==
  \/ CodeInitialize
  \/ \E t \in Threads, f \in DefinedFuncs : t \notin dataReaders /\ GetEntryBegin(t, f)
  \/ \E t \in Threads : GetEntryLock(t)
  \/ \E t \in Threads : GetEntryCreate(t)
  \/ \E t \in Threads : ThreadReturn(t)
  \/ \E t \in Threads : DataReadLock(t)
  \/ \E t \in Threads : DataReadUnlock(t)
  \/ FinishLink
  \/ FinishRegister
  \/ FinishLock
  \/ FinishCreateStubs
  \/ FinishSetTier2
  \/ FinishPublish
  \/ FinishSetJitEntries
  \/ FinishSetTieringEntries

LockSpec == Init /\ [][LockNext]_vars

LinkNext ==
  \/ \E f \in DefinedFuncs, fresh \in BOOLEAN : StubClaim(f, fresh)
  \/ \E ok \in BOOLEAN : StubLink(ok)
  \/ StubMakeExecutable
  \/ StubPublish
  \/ Tier2SegmentStep

LinkSpec == Init /\ [][LinkNext]_vars

\* ------------------------------------- StaticallyLink / StaticallyUnlink
\* What linking and unlinking a buffer leave alone.
relocFrame ==
  <<mapVars, writerVars, readerVars, sharedStubs, tier1, tier2, hasTier2, dataLock,
    lazyExports, jit, tiering, t2linked, t2stubs, cpc, cret, snapJit, snapLazy,
    snapLookup, epc, efunc, eobs, eret, earlyReads, racers, jcall,
    segState, lengthBytes, capacityBytes, claims, segReq,
    blkState, debugBuild, startFuncIndex, funcToCodeRange, meta, dataReaders,
    lstubs, t2seg,
    life,
    mapDestroyed,
    sampler,
    insertResult,
    mode_,
    tieringCall>>

\* The pointer-sized words of a code buffer, by offset.
BufOffsets == 0..(BufWords - 1)

\* enum class SymbolicAddress: two of the runtime symbols.
Symbols == {1, 2}

\* The absolute address of a runtime symbol, outside the buffer.
SymbolAddress(sym) == 3 * U32Mod + sym

\* What the assembler leaves in a symbolic-link site: (void*)-1.
SymbolicPlaceholder == SizeMod - 1

\* What a word of an unlinked buffer is: plain code, the site of an internal
\* link to a target offset, or the site of a link to a symbol.
WordLayouts ==
  {<<"plain", v>> : v \in {0, U32Mod - 1}}
    \cup {<<"internal", target>> : target \in BufOffsets}
    \cup {<<"symbolic", sym>> : sym \in Symbols}

\* struct LinkData of a layout: internalLinks {patchAtOffset, targetOffset} and
\* symbolicLinks, the offsets of the sites of each symbol.
LinkDataOf(layout) ==
  [internalLinks |->
     {[patchAtOffset |-> o, targetOffset |-> layout[o][2]] :
        o \in {p \in BufOffsets : layout[p][1] = "internal"}},
   symbolicLinks |->
     [sym \in Symbols |->
        {o \in BufOffsets : layout[o][1] = "symbolic" /\ layout[o][2] = sym}]]

\* The unlinked bytes of a layout: an internal site holds its segment-relative
\* target offset, a symbolic site the placeholder.
UnlinkedBytes(layout) ==
  [o \in BufOffsets |->
     IF layout[o][1] = "plain" THEN layout[o][2]
     ELSE IF layout[o][1] = "internal" THEN layout[o][2]
     ELSE SymbolicPlaceholder]

\* StaticallyLink(writable, base, linkData, maybeSharedStubs): every internal
\* link site is patched to base + targetOffset, every symbolic link site to
\* the address of its symbol.
StaticallyLink(buf, bufBase, linkData) ==
  [o \in BufOffsets |->
     IF \E l \in linkData.internalLinks : l.patchAtOffset = o
     THEN LET l == CHOOSE l \in linkData.internalLinks : l.patchAtOffset = o
          IN (bufBase + l.targetOffset) % SizeMod
     ELSE IF \E sym \in Symbols : o \in linkData.symbolicLinks[sym]
     THEN SymbolAddress(CHOOSE sym \in Symbols : o \in linkData.symbolicLinks[sym])
     ELSE buf[o]]

\* Mutant: an unlink that resets the internal links only.
StaticallyUnlinkInternalOnly(buf, bufBase, linkData) ==
  [o \in BufOffsets |->
     IF \E l \in linkData.internalLinks : l.patchAtOffset = o
     THEN (buf[o] + SizeMod - bufBase) % SizeMod
     ELSE buf[o]]

\* StaticallyUnlink(base, linkData): every internal link site is patched back
\* to its segment-relative offset (the base taken off), every symbolic link
\* site to the placeholder.
StaticallyUnlink(buf, bufBase, linkData) ==
  [o \in BufOffsets |->
     IF \E l \in linkData.internalLinks : l.patchAtOffset = o
     THEN (buf[o] + SizeMod - bufBase) % SizeMod
     ELSE IF \E sym \in Symbols : o \in linkData.symbolicLinks[sym]
     THEN SymbolicPlaceholder
     ELSE buf[o]]

\* The assembler hands over unlinked bytes and their LinkData, and the buffer
\* is allocated at bufBase.
RelocCreate(layout, bufBase) ==
  /\ reloc = <<>>
  /\ reloc' = [stage |-> "unlinked", base |-> bufBase, linkData |-> LinkDataOf(layout),
               orig |-> UnlinkedBytes(layout), buf |-> UnlinkedBytes(layout)]
  /\ UNCHANGED relocFrame

\* The buffer is statically linked in place.
RelocLink ==
  /\ reloc # <<>>
  /\ reloc.stage = "unlinked"
  /\ reloc' = [reloc EXCEPT !.stage = "linked",
                            !.buf = StaticallyLink(reloc.buf, reloc.base, reloc.linkData)]
  /\ UNCHANGED relocFrame

\* The buffer is unlinked for serialization.
RelocUnlink ==
  /\ reloc # <<>>
  /\ reloc.stage = "linked"
  /\ reloc' = [reloc EXCEPT !.stage = "serializable",
                            !.buf = StaticallyUnlink(reloc.buf, reloc.base, reloc.linkData)]
  /\ UNCHANGED relocFrame

\* ------------------------------------- the life of a CodeBlock in the map
\* What registering and destroying a CodeBlock leave alone in Code.
lifeFrame ==
  <<sharedStubs, tier1, tier2, hasTier2, dataLock,
    lazyExports, jit, tiering, t2linked, t2stubs, cpc, cret, snapJit, snapLazy,
    snapLookup, epc, efunc, eobs, eret, earlyReads, racers, jcall,
    segState, lengthBytes, capacityBytes, claims, segReq,
    blkState, debugBuild, startFuncIndex, funcToCodeRange, meta, dataReaders,
    lstubs, t2seg, reloc,
    mapDestroyed,
    sampler,
    insertResult,
    mode_,
    tieringCall>>

\* explicit CodeBlock(CodeBlockKind kind): unregisterOnDestroy_(false).
CodeBlockConstruct(cs) ==
  /\ aborted = "no"
  /\ life[cs] = "free"
  /\ life' = [life EXCEPT ![cs] = "constructed"]
  /\ UNCHANGED <<mapVars, writerVars, readerVars, lifeFrame>>

\* CodeBlock::initialize registers the block: insert(cs) is entered.
RegisterCodeBlock(w, cs) ==
  /\ aborted = "no"
  /\ life[cs] = "constructed"
  /\ wpc[w] = "idle"
  /\ mutatorsMutex = Null
  /\ mutatorsMutex' = w
  /\ wpc' = [wpc EXCEPT ![w] = "first"]
  /\ wop' = [wop EXCEPT ![w] = "insert"]
  /\ wcs' = [wcs EXCEPT ![w] = cs]
  /\ life' = [life EXCEPT ![cs] = "registering"]
  /\ UNCHANGED <<segments1, segments2, mutableCodeBlocks, readonlyCodeBlocks,
                 numActiveLookups, aborted, windex, wother, wret, readerVars, lifeFrame>>

\* insert(cs) returned true: unregisterOnDestroy_ = true.
RegisterReturnTrue(w) ==
  /\ aborted = "no"
  /\ wpc[w] = "return" /\ wop[w] = "insert"
  /\ Return(w)
  /\ life' = [life EXCEPT ![wcs[w]] = "registered"]
  /\ UNCHANGED <<segments1, segments2, mutableCodeBlocks, readonlyCodeBlocks,
                 numActiveLookups, aborted, readerVars, lifeFrame>>

\* insert(cs) returned false: initialize fails, unregisterOnDestroy_ stays
\* false.
RegisterReturnFalse(cs) ==
  /\ aborted = "no"
  /\ life[cs] = "registering"
  /\ \A w \in Writers : wcs[w] # cs
  /\ life' = [life EXCEPT ![cs] = "constructed"]
  /\ UNCHANGED <<mapVars, writerVars, readerVars, lifeFrame>>

\* ~CodeBlock() of a block with unregisterOnDestroy_ false: nothing to
\* unregister, the object is freed.
DestroyUnregistered(cs) ==
  /\ aborted = "no"
  /\ life[cs] = "constructed"
  /\ life' = [life EXCEPT ![cs] = "free"]
  /\ UNCHANGED <<mapVars, writerVars, readerVars, lifeFrame>>

\* Mutant: a destructor that frees a registered block without unregistering.
DestroyNoUnregister(w, cs) ==
  /\ aborted = "no"
  /\ life[cs] = "registered"
  /\ wpc[w] = "idle"
  /\ life' = [life EXCEPT ![cs] = "free"]
  /\ UNCHANGED <<mapVars, writerVars, readerVars, lifeFrame>>

\* ~CodeBlock() of a block with unregisterOnDestroy_ true: remove(cs) is
\* entered.
DestroyRegistered(w, cs) ==
  /\ aborted = "no"
  /\ life[cs] = "registered"
  /\ wpc[w] = "idle"
  /\ mutatorsMutex = Null
  /\ mutatorsMutex' = w
  /\ wpc' = [wpc EXCEPT ![w] = "first"]
  /\ wop' = [wop EXCEPT ![w] = "remove"]
  /\ wcs' = [wcs EXCEPT ![w] = cs]
  /\ life' = [life EXCEPT ![cs] = "destroying"]
  /\ UNCHANGED <<segments1, segments2, mutableCodeBlocks, readonlyCodeBlocks,
                 numActiveLookups, aborted, windex, wother, wret, readerVars, lifeFrame>>

\* remove(cs) returned, the destructor ends and the object is freed.
DestroyFree(w) ==
  /\ aborted = "no"
  /\ wpc[w] = "return" /\ wop[w] = "remove"
  /\ Return(w)
  /\ life' = [life EXCEPT ![wcs[w]] = "free"]
  /\ UNCHANGED <<segments1, segments2, mutableCodeBlocks, readonlyCodeBlocks,
                 numActiveLookups, aborted, readerVars, lifeFrame>>

LifeNext ==
  \/ \E r \in Readers, pc \in PCs : LookupBegin(r, pc)
  \/ \E r \in Readers : LookupLoad(r)
  \/ \E r \in Readers : LookupSearch(r)
  \/ \E r \in Readers : LookupFetch(r)
  \/ \E r \in Readers : LookupExit(r)
  \/ \E cs \in Blocks : CodeBlockConstruct(cs)
  \/ \E w \in Writers, cs \in Blocks : RegisterCodeBlock(w, cs)
  \/ \E w \in Writers : InsertFirst(w)
  \/ \E w \in Writers : SwapExchange(w)
  \/ \E w \in Writers : SwapWait(w)
  \/ \E w \in Writers : InsertSecond(w)
  \/ \E w \in Writers : RegisterReturnTrue(w)
  \/ \E cs \in Blocks : RegisterReturnFalse(cs)
  \/ \E cs \in Blocks : DestroyUnregistered(cs)
  \/ \E w \in Writers, cs \in Blocks : DestroyRegistered(w, cs)
  \/ \E w \in Writers : RemoveFirst(w)
  \/ \E w \in Writers : RemoveSecond(w)
  \/ \E w \in Writers : DestroyFree(w)

LifeSpec == Init /\ [][LifeNext]_vars

\* ------------------------------------- ~ThreadSafeCodeBlockMap
\* What the destructor of the map leaves alone outside the map.
destroyFrame ==
  <<sharedStubs, tier1, tier2, hasTier2, dataLock,
    lazyExports, jit, tiering, t2linked, t2stubs, cpc, cret, snapJit, snapLazy,
    snapLookup, epc, efunc, eobs, eret, earlyReads, racers, jcall,
    segState, lengthBytes, capacityBytes, claims, segReq,
    blkState, debugBuild, startFuncIndex, funcToCodeRange, meta, dataReaders,
    lstubs, t2seg, reloc, life,
    sampler,
    insertResult,
    mode_,
    tieringCall>>

\* ~ThreadSafeCodeBlockMap(), with no insert or remove under way:
\* MOZ_RELEASE_ASSERT(numActiveLookups_ == 0), then both vectors are cleared
\* and freed.
MapDestroy ==
  /\ aborted = "no"
  /\ mapDestroyed = FALSE
  /\ \A w \in Writers : wpc[w] = "idle"
  /\ IF numActiveLookups = 0
     THEN /\ segments1' = <<>>
          /\ segments2' = <<>>
          /\ mapDestroyed' = TRUE
          /\ UNCHANGED aborted
     ELSE /\ aborted' = "assert"
          /\ UNCHANGED <<segments1, segments2, mapDestroyed>>
  /\ UNCHANGED <<mutableCodeBlocks, readonlyCodeBlocks, numActiveLookups, mutatorsMutex,
                 writerVars, readerVars, destroyFrame>>

\* The map from its construction to its destruction: no member function runs
\* on a destroyed map.
ShutdownNext ==
  \/ \E r \in Readers, pc \in PCs : mapDestroyed = FALSE /\ LookupBegin(r, pc)
  \/ \E r \in Readers : mapDestroyed = FALSE /\ LookupLoad(r)
  \/ \E r \in Readers : mapDestroyed = FALSE /\ LookupSearch(r)
  \/ \E r \in Readers : mapDestroyed = FALSE /\ LookupFetch(r)
  \/ \E r \in Readers : mapDestroyed = FALSE /\ LookupExit(r)
  \/ \E w \in Writers, cs \in Blocks : mapDestroyed = FALSE /\ InsertLock(w, cs)
  \/ \E w \in Writers, cs \in Blocks : mapDestroyed = FALSE /\ RemoveLock(w, cs)
  \/ \E w \in Writers : mapDestroyed = FALSE /\ InsertFirst(w)
  \/ \E w \in Writers : mapDestroyed = FALSE /\ SwapExchange(w)
  \/ \E w \in Writers : mapDestroyed = FALSE /\ SwapWait(w)
  \/ \E w \in Writers : mapDestroyed = FALSE /\ InsertSecond(w)
  \/ \E w \in Writers : mapDestroyed = FALSE /\ InsertReturn(w)
  \/ \E w \in Writers : mapDestroyed = FALSE /\ RemoveFirst(w)
  \/ \E w \in Writers : mapDestroyed = FALSE /\ RemoveSecond(w)
  \/ \E w \in Writers : mapDestroyed = FALSE /\ RemoveReturn(w)
  \/ MapDestroy

ShutdownSpec == Init /\ [][ShutdownNext]_vars

\* ------------------------------------- a lookup on the thread of a writer
\* What a sampled lookup leaves alone outside the map.
sampleFrame ==
  <<sharedStubs, tier1, tier2, hasTier2, dataLock,
    lazyExports, jit, tiering, t2linked, t2stubs, cpc, cret, snapJit, snapLazy,
    snapLookup, epc, efunc, eobs, eret, earlyReads, racers, jcall,
    segState, lengthBytes, capacityBytes, claims, segReq,
    blkState, debugBuild, startFuncIndex, funcToCodeRange, meta, dataReaders,
    lstubs, t2seg, reloc, life, mapDestroyed,
    insertResult,
    mode_,
    tieringCall>>

\* The writers whose thread is running a lookup of the profiler: they are
\* suspended until it returns.
Interrupted == {sampler[r] : r \in Readers} \ {Null}

\* The profiler samples the thread of writer w, which holds mutatorsMutex_,
\* and calls lookup(pc) on it: numActiveLookups_++.
SampleLookupBegin(r, w, pc) ==
  /\ aborted = "no"
  /\ rpc[r] = "idle"
  /\ mutatorsMutex = w
  /\ w \notin Interrupted
  /\ sampler' = [sampler EXCEPT ![r] = w]
  /\ numActiveLookups' = numActiveLookups + 1
  /\ rpc' = [rpc EXCEPT ![r] = "load"]
  /\ rpcval' = [rpcval EXCEPT ![r] = pc]
  /\ rresult' = [rresult EXCEPT ![r] = Null]
  /\ UNCHANGED <<segments1, segments2, mutableCodeBlocks, readonlyCodeBlocks,
                 mutatorsMutex, aborted, writerVars,
                 rsnap, rlow, rhigh, rindex, rlive, sampleFrame>>

\* Mutant: a lookup that takes mutatorsMutex_, on the thread that holds it.
SampleLookupLoadLocked(r) ==
  /\ sampler[r] # Null
  /\ LookupLoadLocked(r)

\* The load of readonlyCodeBlocks_ by the sampled lookup.
SampleLookupLoad(r) ==
  /\ sampler[r] # Null
  /\ LookupLoad(r)

\* The return of the sampled lookup: numActiveLookups_--, and the thread goes
\* back to its insert or remove.
SampleLookupExit(r) ==
  /\ aborted = "no"
  /\ rpc[r] = "exit"
  /\ sampler[r] # Null
  /\ sampler' = [sampler EXCEPT ![r] = Null]
  /\ numActiveLookups' = numActiveLookups - 1
  /\ rpc' = [rpc EXCEPT ![r] = "idle"]
  /\ rpcval' = [rpcval EXCEPT ![r] = 0]
  /\ rsnap' = [rsnap EXCEPT ![r] = "none"]
  /\ rlow' = [rlow EXCEPT ![r] = 0]
  /\ rhigh' = [rhigh EXCEPT ![r] = 0]
  /\ rindex' = [rindex EXCEPT ![r] = 0]
  /\ rresult' = [rresult EXCEPT ![r] = Null]
  /\ rlive' = [rlive EXCEPT ![r] = {}]
  /\ UNCHANGED <<segments1, segments2, mutableCodeBlocks, readonlyCodeBlocks,
                 mutatorsMutex, aborted, writerVars, sampleFrame>>

\* The steps of a sampled lookup after its increment.
SampleLookupStep(r) ==
  SampleLookupLoad(r) \/ (sampler[r] # Null /\ LookupSearch(r))
    \/ (sampler[r] # Null /\ LookupFetch(r)) \/ SampleLookupExit(r)

\* The steps of a writer inside insert or remove.
WriterBodyStep(w) ==
  InsertFirst(w) \/ SwapExchange(w) \/ SwapWait(w) \/ InsertSecond(w)
    \/ InsertReturn(w) \/ RemoveFirst(w) \/ RemoveSecond(w) \/ RemoveReturn(w)

\* Lookups of other threads and lookups of the profiler on the thread of a
\* writer, which does not move while it is interrupted.
SampleNext ==
  \/ \E r \in Readers, pc \in PCs : LookupBegin(r, pc)
  \/ \E r \in Readers, w \in Writers, pc \in PCs : SampleLookupBegin(r, w, pc)
  \/ \E r \in Readers : sampler[r] = Null /\ LookupLoad(r)
  \/ \E r \in Readers : SampleLookupLoad(r)
  \/ \E r \in Readers : LookupSearch(r)
  \/ \E r \in Readers : LookupFetch(r)
  \/ \E r \in Readers : sampler[r] = Null /\ LookupExit(r)
  \/ \E r \in Readers : SampleLookupExit(r)
  \/ \E w \in Writers, cs \in Blocks : InsertLock(w, cs)
  \/ \E w \in Writers, cs \in Blocks : RemoveLock(w, cs)
  \/ \E w \in Writers : w \notin Interrupted /\ InsertFirst(w)
  \/ \E w \in Writers : w \notin Interrupted /\ SwapExchange(w)
  \/ \E w \in Writers : w \notin Interrupted /\ SwapWait(w)
  \/ \E w \in Writers : w \notin Interrupted /\ InsertSecond(w)
  \/ \E w \in Writers : w \notin Interrupted /\ InsertReturn(w)
  \/ \E w \in Writers : w \notin Interrupted /\ RemoveFirst(w)
  \/ \E w \in Writers : w \notin Interrupted /\ RemoveSecond(w)
  \/ \E w \in Writers : w \notin Interrupted /\ RemoveReturn(w)

SampleSpec == Init /\ [][SampleNext]_vars

\* funcCodeBlock called by the running threads while the compiler thread
\* finishes tier 2.
TierNext ==
  \/ CodeInitialize
  \/ \E t \in Threads, f \in FuncIndices : FuncCodeBlockBegin(t, f)
  \/ \E t \in Threads : FuncCodeBlockRead(t)
  \/ \E t \in Threads : ThreadReturn(t)
  \/ FinishLink
  \/ FinishRegister
  \/ FinishLock
  \/ FinishCreateStubs
  \/ FinishSetTier2
  \/ FinishPublish
  \/ FinishSetJitEntries
  \/ FinishSetTieringEntries

TierSpec == Init /\ [][TierNext]_vars

ModeNext ==
  \/ \E mode \in CompileModes : JumpTablesInitialize(mode)
  \/ \E i \in FuncIndices, k \in {BaselineTier, OptimizedTier} :
       JumpSetTieringEntry(i, FuncEntry(k, i))
  \/ \E i \in DefinedFuncs, k \in {BaselineTier, OptimizedTier} :
       JumpSetJitEntry(i, StubEntry(k, i))

ModeSpec == Init /\ [][ModeNext]_vars

RelocNext ==
  \/ \E layout \in [BufOffsets -> WordLayouts], bufBase \in {U32Mod, SizeMod - 1} :
       RelocCreate(layout, bufBase)
  \/ RelocLink
  \/ RelocUnlink

RelocSpec == Init /\ [][RelocNext]_vars

MetaNext ==
  \/ \E cs \in CodeBlocks : meta = <<>> /\ QuietInsert(cs)
  \/ \E cs \in CodeBlocks : meta = <<>> /\ QuietRemove(cs)
  \/ \E kind \in MetaKinds, pc \in CodePCs, hasEntry \in BOOLEAN, isFunction \in BOOLEAN :
       MetaLookup(kind, pc, hasEntry, isFunction)
  \/ MetaReturn

MetaSpec == Init /\ [][MetaNext]_vars

BlockNext ==
  \/ \E start \in 0..NumFuncImports, numFuncs \in 0..NumFuncs, dbg \in BOOLEAN :
       CreateDense(start, numFuncs, dbg)
  \/ \E funcIndex \in 0..(NumFuncImports + NumFuncs), codeRangeIndex \in CodeRangeIndices :
       FuncToCodeRangeInsert(funcIndex, codeRangeIndex)
  \/ \E ok \in BOOLEAN : CodeBlockInitialize(ok)

BlockSpec == Init /\ [][BlockNext]_vars

\* ------------------------------------------------------------------ claims
\* One step of an in-flight lookup(pc) of reader r.
LookupStep(r) ==
  LookupLoad(r) \/ LookupSearch(r) \/ LookupFetch(r) \/ LookupExit(r)

\* C1: whatever insert/remove calls run concurrently, a lookup(pc) that has
\* computed its result returns null or a block whose range [base, base+length)
\* holds pc and that was in the published vector during the call.
C1_LookupReturnsContainingBlock ==
  \A r \in Readers :
    rpc[r] = "exit" =>
      \/ rresult[r] = Null
      \/ /\ rresult[r] \in Blocks
         /\ base(rresult[r]) <= rpcval[r]
         /\ rpcval[r] < base(rresult[r]) + length(rresult[r])
         /\ rresult[r] \in rlive[r]

\* A lookup returns a block it found in the vector it snapshotted while a
\* writer, having swapped that vector out, spins in swapAndWait().
C1_Witness ==
  \E r \in Readers, w \in Writers :
    /\ rpc[r] = "exit" /\ rresult[r] # Null
    /\ wpc[w] = "wait" /\ rsnap[r] = mutableCodeBlocks

\* C2: no step changes a vector that an in-flight lookup has snapshotted, and
\* swapAndWait() is left for the second mutation only with numActiveLookups_
\* read as 0.
C2_NoMutationUnderLookup ==
  [][ /\ (segments1' # segments1 => \A r \in Readers : rsnap[r] # "segments1_")
      /\ (segments2' # segments2 => \A r \in Readers : rsnap[r] # "segments2_")
      /\ \A w \in Writers :
           (wpc[w] = "wait" /\ wpc'[w] = "second") => numActiveLookups = 0
    ]_vars

\* A writer has swapped the vectors and must spin: a lookup still holds the
\* vector that is now the writer's.
C2_Witness ==
  \E r \in Readers, w \in Writers :
    /\ wpc[w] = "wait" /\ numActiveLookups > 0
    /\ rsnap[r] = mutableCodeBlocks /\ rpc[r] \in {"search", "fetch"}

\* The steps a lookup still has to take, at most.
LookupMeasure(r) ==
  CASE rpc[r] = "load" -> NumBlocks + 4
    [] rpc[r] = "search" -> (rhigh[r] - rlow[r]) + 3
    [] rpc[r] = "fetch" -> 2
    [] rpc[r] = "exit" -> 1
    [] OTHER -> 0

\* C3: a started lookup can always take its next step, whoever holds
\* mutatorsMutex_ and wherever a writer is; its steps leave the mutex alone and
\* each brings it closer to its return.
C3_LookupNeverWaits ==
  /\ [](\A r \in Readers :
          (rpc[r] # "idle" /\ aborted = "no") => ENABLED LookupStep(r))
  /\ [][\A r \in Readers :
          (rpc[r] # "idle" /\ <<rpc[r], rlow[r], rhigh[r]>>' # <<rpc[r], rlow[r], rhigh[r]>>)
            => /\ mutatorsMutex' = mutatorsMutex
               /\ LookupMeasure(r)' < LookupMeasure(r)
               /\ LookupMeasure(r)' >= 0
       ]_vars

\* A lookup is about to read the published pointer while a writer holds the
\* mutex and spins in swapAndWait().
C3_Witness ==
  \E r \in Readers, w \in Writers :
    rpc[r] = "load" /\ mutatorsMutex = w /\ wpc[w] = "wait"

\* C4: the vector published through readonlyCodeBlocks_ is sorted by base and
\* its ranges are pairwise disjoint.
C4_PublishedSortedDisjoint ==
  LET vec == Vec(readonlyCodeBlocks) IN
  \A i, j \in 1..Len(vec) :
    i < j => base(vec[i]) + length(vec[i]) <= base(vec[j])

\* An insert has just published a vector in which the new block comes before
\* a block that was there already.
C4_Witness ==
  \E w \in Writers :
    /\ wop[w] = "insert" /\ wpc[w] = "wait"
    /\ Len(Vec(readonlyCodeBlocks)) >= 2
    /\ Vec(readonlyCodeBlocks)[1] = wcs[w]

\* C5: with mutatorsMutex_ free the two vectors hold the same sequence, and the
\* second search of insert/remove finds the index of the first
\* (index == otherIndex is never violated).
C5_VectorsConverge ==
  /\ mutatorsMutex = Null => segments1 = segments2
  /\ aborted # "assert"
  /\ \A w \in Writers : wpc[w] = "return" => wother[w] = windex[w]

\* A remove is about to return: after swapAndWait() its second search found
\* the block at the index of the first, and both vectors now hold the same
\* remaining block.
C5_Witness ==
  \E w \in Writers :
    /\ wop[w] = "remove" /\ wpc[w] = "return" /\ mutatorsMutex = w
    /\ segments1 = segments2 /\ Len(segments1) >= 1

\* The state of the three-state protocol of [SMDOC] Tier-2 data.
TierState ==
  IF hasTier2
  THEN IF tier2 = Null THEN "Invalid" ELSE "Published"
  ELSE IF tier2 = Null THEN "Absent" ELSE "Building"

\* The tier-2 block is in the map's published vector.
Tier2Registered == Tier2Block \in BlockSet(Vec(readonlyCodeBlocks))

\* The tier-2 lazy stub block covers every LazyFuncExport that existed when it
\* was generated, and every LazyFuncExport targets the optimized tier.
Tier2Stubbed ==
  /\ LazyFuncs(snapLazy) \subseteq t2stubs
  /\ \A i \in 1..Len(lazyExports) : lazyExports[i].funcKind = OptimizedTier

\* C6: (tier2_, hasTier2_) is only ever Absent, Building or Published; it moves
\* only from Absent to Building and from Building to Published, so
\* (true, null) is never reached, hasTier2_ never goes back to false and tier2_
\* is installed at most once.
C6_TierStateMachine ==
  /\ [](TierState # "Invalid")
  /\ [][ <<tier2, hasTier2>>' # <<tier2, hasTier2>> =>
           \/ TierState = "Absent" /\ TierState' = "Building"
           \/ TierState = "Building" /\ TierState' = "Published" /\ tier2' = tier2
       ]_vars

\* The module has tiered up and finishCompleteTier2 has returned true.
C6_Witness ==
  TierState = "Published" /\ cpc = "done" /\ cret = "true"

\* C7: hasTier2_ goes from false to true at most once; no executing thread
\* reads tier2_ without having read hasTier2_ as true, and what it then reads
\* is the linked, registered and stubbed tier-2 block.
C7_Tier2ReadOnlyAfterPublication ==
  /\ [](/\ earlyReads \cap Threads = {}
        /\ \A t \in Threads :
             (epc[t] = "ret" /\ eobs[t]) =>
               /\ eret[t] = Tier2Block
               /\ t2linked /\ Tier2Registered /\ Tier2Stubbed)
  /\ [][hasTier2 => hasTier2']_vars

\* A thread's funcCodeBlock has returned *tier2_ while another thread, which
\* read hasTier2_ as false before the publication, is still to pick its block.
C7_Witness ==
  \E t, u \in Threads :
    /\ epc[t] = "ret" /\ eobs[t] /\ eret[t] = Tier2Block
    /\ epc[u] = "codeBlock" /\ ~eobs[u] /\ hasTier2

\* C8: tier2_ is written once, by the tier-2 compiler thread in its own step
\* and while hasTier2_ is false; that thread does not read tier2_ before it
\* sets hasTier2_.
C8_SingleWriterOfTier2 ==
  /\ [](CompilerThread \notin earlyReads)
  /\ [][ tier2' # tier2 =>
           /\ tier2 = Null /\ ~hasTier2 /\ ~hasTier2'
           /\ cpc = "setTier2" /\ cpc' = "publish"
           /\ <<epc, efunc, eobs, eret>>' = <<epc, efunc, eobs, eret>>
       ]_vars

\* The compiler thread has made tier2_ non-null and not yet published it, while
\* an executing thread is inside funcCodeBlock.
C8_Witness ==
  /\ TierState = "Building" /\ cpc = "publish"
  /\ \E t \in Threads : epc[t] = "codeBlock"

\* C9 as stated: at Published the block is linked, registered and stubbed, and
\* the stubs are wired into the jit-entry jump table.
C9_PublishedAfterJitWiring ==
  hasTier2 =>
    /\ t2linked /\ Tier2Registered /\ Tier2Stubbed
    /\ \A f \in t2stubs : jit[f] = StubEntry(OptimizedTier, f)

\* C9: hasTier2_ is set only after the tier-2 block is linked, registered in
\* the map and the lazy stubs for the existing LazyFuncExports are generated
\* and the exports retargeted; the stubs' jit entries are set after the store,
\* never before it, and are all set when finishCompleteTier2 returns true.
C9_PublishedAfterLinkRegisterStubs ==
  /\ hasTier2 => (t2linked /\ Tier2Registered /\ Tier2Stubbed /\ tier2 = Tier2Block)
  /\ ~hasTier2 => \A f \in FuncIndices : jit[f] # StubEntry(OptimizedTier, f)
  /\ cpc = "done" => \A f \in t2stubs : jit[f] = StubEntry(OptimizedTier, f)

\* Tier 2 is published while the jit entry of an upgraded stub still points at
\* the tier-1 stub.
C9_Witness ==
  /\ hasTier2 /\ cpc = "jit"
  /\ \E f \in t2stubs : jit[f] = StubEntry(BaselineTier, f)

\* C10: a finishCompleteTier2 that fails before publication returns false and
\* leaves hasTier2_ false and the best tier at tier 1; every metadata lookup,
\* jit entry, lazy interp entry and tiering entry that resolved when it was
\* called resolves to the same tier-1 result.
C10_FailureLeavesTier1 ==
  cpc = "failed" =>
    /\ cret = "false"
    /\ ~hasTier2 /\ tier2 = Null
    /\ bestTier = BaselineTier
    /\ \A pc \in CodePCs : snapLookup[pc] # Null => CodeLookup(pc) = snapLookup[pc]
    /\ \A f \in FuncIndices : snapJit[f] # Null => jit[f] = snapJit[f]
    /\ \A f \in LazyFuncs(snapLazy) :
         lookupLazyInterpEntry(lazyExports, f) = lookupLazyInterpEntry(snapLazy, f)
    /\ \A f \in DefinedFuncs : tiering[f] = FuncEntry(BaselineTier, f)

\* The stub upgrade failed after the block was linked and registered, in a
\* module that already had a lazy stub and a resolved jit entry.
C10_Witness ==
  /\ cpc = "failed" /\ t2linked
  /\ snapLookup[base(Tier1Block)] # Null
  /\ snapLazy # <<>>
  /\ \E f \in FuncIndices : snapJit[f] # Null

\* The threads whose getOrCreateInterpEntry(f) has returned an entry.
EntryReturned(f) ==
  {t \in Threads : epc[t] = "ret" /\ efunc[t] = f /\ eret[t] # Null}

\* lazyExports records one LazyFuncExport per function at most.
OneStubPerFunc ==
  \A i, j \in 1..Len(lazyExports) :
    lazyExports[i].funcIndex = lazyExports[j].funcIndex => i = j

\* C11 as stated: one stub per function, and all the callers of
\* getOrCreateInterpEntry(f) that raced on f without a stub and got an entry
\* got the same one.
C11_SameEntryForAllCallers ==
  /\ OneStubPerFunc
  /\ \A f \in DefinedFuncs :
       \A t, u \in EntryReturned(f) \cap racers : eret[t] = eret[u]

\* C11: the racing callers of getOrCreateInterpEntry(f) create one
\* LazyFuncExport for f between them, and every entry returned is that of a
\* stub recorded for f; the callers all get the same entry unless
\* finishCompleteTier2 has replaced f's stub by its tier-2 stub meanwhile.
C11_OneStubSameEntry ==
  /\ OneStubPerFunc
  /\ \A f \in DefinedFuncs : \A t, u \in EntryReturned(f) :
       /\ f \in LazyFuncs(lazyExports)
       /\ eret[t] \in {StubEntry(BaselineTier, f), StubEntry(OptimizedTier, f)}
       /\ f \notin t2stubs => eret[t] = eret[u]

\* Two callers that raced on a function without a stub have both returned, with
\* the same entry.
C11_Witness ==
  \E f \in DefinedFuncs : \E t, u \in EntryReturned(f) \cap racers :
    t # u /\ eret[t] = eret[u] /\ Len(lazyExports) = 1

\* C12 as stated: a jit-entry slot that is non-null keeps its value.
C12_JitSlotNeverChanges ==
  [][\A f \in FuncIndices : jit[f] # Null => jit'[f] = jit[f]]_vars

\* C12: a jit-entry slot that is non-null never becomes null again; it is
\* first set from null to the entry of a lazy stub of its function, and it
\* changes afterwards only in tier-2 finalization, whose setJitEntry store
\* retargets it from the function's tier-1 stub to its tier-2 stub.
C12_JitSlotMonotonic ==
  [][\A f \in FuncIndices :
       jit'[f] # jit[f] =>
         /\ jit'[f] \in {StubEntry(BaselineTier, f), StubEntry(OptimizedTier, f)}
         /\ jit[f] # Null =>
              /\ cpc = "jit" /\ hasTier2 /\ f \in t2stubs
              /\ jit[f] = StubEntry(BaselineTier, f)
              /\ jit'[f] = StubEntry(OptimizedTier, f)
    ]_vars

\* finishCompleteTier2 has returned true after retargeting a slot that held a
\* tier-1 lazy stub when it was called.
C12_Witness ==
  /\ cpc = "done"
  /\ \E f \in t2stubs :
       snapJit[f] = StubEntry(BaselineTier, f) /\ jit[f] = StubEntry(OptimizedTier, f)

\* The threads whose setJitEntryIfNull on slot i stored its target.
JumpWinners(i) ==
  {t \in Threads : jcall[t] # <<>> /\ jcall[t][1] = i /\ jcall[t][3]}

\* C13: of the setJitEntryIfNull calls racing on a slot exactly one stores, the
\* one that found the slot null; the slot then holds the winner's target,
\* whatever the other callers passed, and a call on a non-null slot leaves it
\* as it is.
C13_OneWinnerPerSlot ==
  /\ [](\A i \in DefinedFuncs :
          /\ Cardinality(JumpWinners(i)) <= 1
          /\ \A t \in JumpWinners(i) : jit[i] = jcall[t][2]
          /\ \A t \in Threads :
               (jcall[t] # <<>> /\ jcall[t][1] = i) => jit[i] # Null)
  /\ [][\A i \in DefinedFuncs : jit[i] # Null => jit'[i] = jit[i]]_vars

\* Two calls with different targets have raced on one slot: one stored, the
\* other did not, and the slot holds the winner's target.
C13_Witness ==
  \E t, u \in Threads : \E i \in DefinedFuncs :
    /\ t \in JumpWinners(i)
    /\ jcall[u] # <<>> /\ jcall[u][1] = i /\ ~jcall[u][3]
    /\ jcall[u][2] # jcall[t][2] /\ jit[i] = jcall[t][2]

\* C14: in the tiering table and in the jit-entry table a slot that is
\* non-null is not set back to null by the setTieringEntry, setJitEntry and
\* setJitEntryIfNull calls of initialization, lazy stub creation and tier-2
\* finalization.
C14_SlotsNeverBackToNull ==
  [][\A f \in FuncIndices :
       /\ jit[f] # Null => jit'[f] # Null
       /\ tiering[f] # Null => tiering'[f] # Null
    ]_vars

\* Tier-2 finalization has overwritten non-null slots of both tables.
C14_Witness ==
  /\ cpc = "done"
  /\ \E f \in t2stubs : snapJit[f] # Null /\ jit[f] # snapJit[f]
  /\ \A f \in DefinedFuncs : tiering[f] = FuncEntry(OptimizedTier, f)

\* C15: lengthBytes_ <= capacityBytes_ after any sequence of claimSpace calls;
\* a claimSpace(n) without the space aborts and leaves lengthBytes_ as it was,
\* and capacityBytes_ never changes.
C15_LengthWithinCapacity ==
  /\ [](/\ lengthBytes <= capacityBytes
        /\ segState = "aborted" =>
             (segReq > capacityBytes \/ lengthBytes + segReq > capacityBytes))
  /\ [][segState = "live" =>
          /\ capacityBytes' = capacityBytes
          /\ segState' = "aborted" => lengthBytes' = lengthBytes
          /\ lengthBytes' >= lengthBytes
       ]_vars

\* A claim that asked for more than what was left of a partly used segment
\* has aborted.
C15_Witness ==
  /\ segState = "aborted"
  /\ 0 < lengthBytes /\ lengthBytes < capacityBytes
  /\ segReq <= capacityBytes

\* The bytes handed out by the claims before the k-th one.
RECURSIVE ClaimedBefore(_)
ClaimedBefore(k) ==
  IF k <= 1 THEN 0 ELSE ClaimedBefore(k - 1) + claims[k - 1][2]

\* C16: the ranges [claimedBase, claimedBase + n) of the successful claims on a
\* segment are pairwise disjoint, lie inside [base, base + capacityBytes), and
\* each claimedBase is base plus the sum of the earlier claims.
C16_ClaimsDisjointInOrder ==
  \A k \in 1..Len(claims) :
    /\ claims[k][1] = SegBase + ClaimedBefore(k)
    /\ SegBase <= claims[k][1]
    /\ claims[k][1] + claims[k][2] <= SegBase + capacityBytes
    /\ \A j \in 1..(k - 1) :
         {claims[j][1] + d : d \in 0..(claims[j][2] - 1)}
           \cap {claims[k][1] + d : d \in 0..(claims[k][2] - 1)} = {}

\* Three claims of different non-zero sizes have filled the segment.
C16_Witness ==
  /\ segState = "live"
  /\ Len(claims) = 3
  /\ \A k \in 1..3 : claims[k][2] > 0
  /\ claims[1][2] # claims[2][2]
  /\ lengthBytes = capacityBytes

\* The function indices the map of the block covers.
CoveredFuncs == startFuncIndex..(startFuncIndex + Len(funcToCodeRange) - 1)

\* Every covered function index maps to a code-range index.
AllFuncsMapped ==
  \A f \in CoveredFuncs : FuncToCodeRangeLookup(f) \in CodeRangeIndices

ReferenceLookup(pc) ==
  LET registered == BlockSet(Vec(readonlyCodeBlocks))
      holders == {cb \in registered : base(cb) <= pc /\ pc < base(cb) + length(cb)}
  IN IF holders = {} THEN Null ELSE CHOOSE cb \in holders : TRUE

\* C18: with no concurrent writer, a lookup(pc) on a map of non-overlapping
\* blocks returns the unique registered block whose range holds pc, or null
\* when there is none.
C18_LookupEqualsReference ==
  /\ \A pc \in CodePCs :
       Cardinality({cb \in BlockSet(Vec(readonlyCodeBlocks)) :
                      base(cb) <= pc /\ pc < base(cb) + length(cb)}) <= 1
  /\ \A r \in Readers :
       rpc[r] = "exit" => rresult[r] = ReferenceLookup(rpcval[r])

\* On a map of three blocks a lookup of the base of the second block has
\* found that block.
C18_Witness ==
  /\ Len(Vec(readonlyCodeBlocks)) = 3
  /\ \E r \in Readers :
       /\ rpc[r] = "exit"
       /\ rpcval[r] = base(Tier1Block)
       /\ rresult[r] = Tier1Block

\* C19: when the second insertion of insert() fails the process aborts: no
\* step follows, the first insertion is still in the published vector (no
\* rollback), and no insert returns with the two vectors different.
C19_SecondInsertFailureAborts ==
  /\ [](aborted = "oom" =>
          \E w \in Writers :
            /\ wop[w] = "insert" /\ wpc[w] = "second"
            /\ mutatorsMutex = w
            /\ wcs[w] \in BlockSet(Vec(readonlyCodeBlocks))
            /\ wcs[w] \notin BlockSet(Vec(mutableCodeBlocks)))
  /\ [][/\ aborted = "no"
        /\ \A w \in Writers :
             (wop[w] = "insert" /\ wop'[w] = "none") => segments1' = segments2'
       ]_vars

\* The second insertion has failed in an insert into a map that held a block
\* already.
C19_Witness ==
  /\ aborted = "oom"
  /\ Len(Vec(readonlyCodeBlocks)) = 2
  /\ Len(Vec(mutableCodeBlocks)) = 1

\* C20: every insert and remove eventually returns (or the process has
\* crashed), under fair scheduling, while the readers keep issuing lookups.
C20_InsertRemoveEventuallyReturn ==
  \A w \in Writers :
    (wpc[w] # "idle") ~> (wpc[w] = "idle" \/ aborted # "no")

\* C21: a metadata lookup for a pc inside no registered block is an empty
\* result and no assertion: lookupTrap returns false, the other Code lookups
\* and ThreadSafeCodeBlockMap::lookup return null, and lookup sets its codeRange
\* out-parameter to null.
C21_LookupMissIsEmpty ==
  (meta # <<>> /\ ReferenceLookup(meta[2]) = Null) =>
    /\ aborted = "no"
    /\ IF meta[1] = "lookupTrap" THEN meta[3] = FALSE ELSE meta[3] = Null
    /\ meta[1] = "lookup" => meta[4] = Null

\* lookupTrap has missed on an address in the gap between two registered
\* blocks.
C21_Witness ==
  /\ meta # <<>>
  /\ meta[1] = "lookupTrap"
  /\ meta[2] = base(SharedStubsBlock) + length(SharedStubsBlock)
  /\ {SharedStubsBlock, Tier1Block} \subseteq BlockSet(Vec(readonlyCodeBlocks))
  /\ meta[3] = FALSE

\* Whether the ranges of two blocks share an address.
RangesOverlap(a, b) ==
  base(a) < base(b) + length(b) /\ base(b) < base(a) + length(a)

\* C22: an insert(block) whose range overlaps a block of the map, and a
\* remove(block) of a block that is not in the map, end in the fatal
\* assertion at their first search and change neither vector.
C22_MisuseIsFatal ==
  [][\A w \in Writers :
       LET vec == Vec(mutableCodeBlocks)
           misuse ==
             \/ wop[w] = "insert" /\ \E cb \in BlockSet(vec) : RangesOverlap(wcs[w], cb)
             \/ wop[w] = "remove" /\ wcs[w] \notin BlockSet(vec)
       IN (wpc[w] = "first" /\ misuse) =>
            /\ aborted' = "assert"
            /\ segments1' = segments1
            /\ segments2' = segments2
    ]_vars

\* The thread that holds the write guard of data_ is inside the guarded part
\* of its call.
WriteGuardHolderInCall ==
  dataLock # Null =>
    IF dataLock = CompilerThread
    THEN cpc \in {"stubs", "setTier2", "publish", "jit", "tiering"}
    ELSE epc[dataLock] = "create"

\* C23: the write guard of data_ is taken only when no thread holds a guard,
\* no read guard is held or taken while it is held, and lazyExports changes
\* only in a step of the thread that holds the write guard.
C23_ReaderWriterExclusion ==
  /\ [](/\ dataLock # Null => dataReaders = {}
        /\ WriteGuardHolderInCall)
  /\ [][/\ (dataLock' # dataLock /\ dataLock' # Null) =>
             (dataLock = Null /\ dataReaders = {})
        /\ (dataReaders' # dataReaders /\ dataReaders' # {} /\ ~(dataReaders' \subseteq dataReaders)) =>
             dataLock = Null
        /\ (lazyExports' # lazyExports \/ t2stubs' # t2stubs) => dataLock # Null
       ]_vars

\* One thread waits for the write guard to create a stub while another holds
\* a read guard.
C23_Witness ==
  \E t, u \in Threads :
    /\ t # u
    /\ epc[t] = "lock"
    /\ u \in dataReaders

\* C24: once Code::initialize() has succeeded, sharedStubs_ and tier1_ are
\* non-null and no step changes them, so stableTier() keeps its value.
C24_Tier1AndStubsFixed ==
  /\ [](tier1 # Null => sharedStubs # Null)
  /\ [][tier1 # Null =>
          /\ tier1' = tier1
          /\ sharedStubs' = sharedStubs
          /\ stableTier' = stableTier
       ]_vars

\* Tier 2 is published and a lazy stub exists, and tier1_ and sharedStubs_
\* are still the blocks of initialize().
C24_Witness ==
  /\ hasTier2
  /\ cpc = "done"
  /\ lazyExports # <<>>
  /\ tier1 = Tier1Block /\ sharedStubs = SharedStubsBlock
  /\ stableTier = BaselineTier /\ bestTier = OptimizedTier

\* The state a stub block or the tier-2 segment had to be in one step before
\* it is in state st.
LinkStateBefore(st) ==
  CASE st = "writable" -> {"writable"}
    [] st = "patched" -> {"writable", "patched"}
    [] st = "executable" -> {"patched", "executable"}
    [] st = "published" -> {"executable", "published"}
    [] st = "registered" -> {"executable", "registered"}
    [] st = "none" -> {"none"}

\* C25 as stated, per segment: a segment that holds an observable block is
\* neither writable nor partly patched anywhere.
C25_SegmentCompleteBeforeObservable ==
  \A i, j \in 1..Len(lstubs) :
    (lstubs[i].state = "published" /\ lstubs[j].seg = lstubs[i].seg) =>
      lstubs[j].state \in {"executable", "published"}

\* C25: per block, the range of the block goes through make-writable, patch
\* and make-executable, in this order, before the block becomes observable
\* (registered, stored in a jump-table slot), and is not written afterwards.
C25_BlockCompleteBeforeObservable ==
  [][/\ \A i \in 1..Len(lstubs') :
          IF i <= Len(lstubs)
          THEN lstubs[i].state \in LinkStateBefore(lstubs'[i].state)
          ELSE lstubs'[i].state = "writable"
     /\ t2seg' # t2seg => t2seg \in (LinkStateBefore(t2seg') \cup {"none"})
     /\ t2seg' = "registered" => t2seg \in {"executable", "registered"}
    ]_vars

\* A second stub block is being patched in the segment of a stub block that
\* is published, and the tier-2 block is registered.
C25_Witness ==
  /\ Len(lstubs) = 2
  /\ lstubs[1].state = "published"
  /\ lstubs[2].state = "patched"
  /\ lstubs[2].seg = lstubs[1].seg
  /\ t2seg = "registered"

RelocSites(linkData) ==
  {l.patchAtOffset : l \in linkData.internalLinks}
    \cup UNION {linkData.symbolicLinks[sym] : sym \in Symbols}

C28_NoDestroyedBlockInMap ==
  \A cb \in Blocks :
    life[cb] = "free" =>
      /\ cb \notin BlockSet(segments1)
      /\ cb \notin BlockSet(segments2)
      /\ \A r \in Readers : rpc[r] = "exit" => rresult[r] # cb

\* A block that was registered has been destroyed while the map holds another
\* block and a lookup is about to return that one.
C28_Witness ==
  \E cb \in Blocks, other \in Blocks :
    /\ cb # other
    /\ life[cb] = "free"
    /\ life[other] = "registered"
    /\ other \in BlockSet(segments1) /\ other \in BlockSet(segments2)
    /\ \E r \in Readers : rpc[r] = "exit" /\ rresult[r] = other

ActiveLookups == {r \in Readers : rpc[r] # "idle"}

\* C30: numActiveLookups_ is the number of lookups between their increment
\* and their decrement: a lookup reads readonlyCodeBlocks_ after its
\* increment, decrements once on its return, hit or miss, with the counter
\* above 0, and the counter is 0 when the map is destroyed.
C30_CounterCountsLookups ==
  /\ [](numActiveLookups = Cardinality(ActiveLookups))
  /\ [](mapDestroyed => numActiveLookups = 0)
  /\ [][\A r \in Readers :
          /\ (rsnap'[r] # rsnap[r] /\ rsnap'[r] # "none") =>
               (r \in ActiveLookups /\ numActiveLookups > 0)
          /\ (r \in ActiveLookups /\ rpc'[r] = "idle") =>
               /\ numActiveLookups > 0
               /\ numActiveLookups' = numActiveLookups - 1
               /\ rpc[r] = "exit"
       ]_vars

\* A lookup that found a block is counted and about to decrement, while a
\* writer that has swapped the vectors spins on the counter.
C30_Witness ==
  \E r \in Readers, w \in Writers :
    /\ rpc[r] = "exit" /\ rresult[r] # Null
    /\ numActiveLookups = Cardinality(ActiveLookups)
    /\ numActiveLookups > 0
    /\ wpc[w] = "wait"
    /\ mapDestroyed = FALSE

\* C31: a lookup on the thread of a writer that holds mutatorsMutex_ never
\* waits: each of its steps is possible while the writer stands still,
\* wherever it was interrupted; it returns what the published vector holds
\* for its pc; and when it has returned the writer is where it was, the counter
\* is what it was, and the writer's next step is possible.
C31_SampledLookupCompletes ==
  /\ [](\A r \in Readers :
          (sampler[r] # Null /\ aborted = "no") =>
            /\ rpc[r] # "idle"
            /\ mutatorsMutex = sampler[r]
            /\ ENABLED SampleLookupStep(r)
            /\ rpc[r] = "exit" => rresult[r] = ReferenceLookup(rpcval[r]))
  /\ [][\A r \in Readers :
          sampler[r] # Null =>
            /\ wpc'[sampler[r]] = wpc[sampler[r]]
            /\ segments1' = segments1 /\ segments2' = segments2
            /\ readonlyCodeBlocks' = readonlyCodeBlocks
            /\ mutatorsMutex' = mutatorsMutex
            /\ sampler'[r] = Null => numActiveLookups' = numActiveLookups - 1
       ]_vars
  /\ [](\A w \in Writers :
          (mutatorsMutex = w /\ w \notin Interrupted /\ numActiveLookups = 0
             /\ aborted = "no") => ENABLED WriterBodyStep(w))

\* The profiler's lookup, started while the writer was spinning in
\* swapAndWait(), is about to return the block that the interrupted insert has
\* just published.
C31_Witness ==
  \E r \in Readers, w \in Writers :
    /\ sampler[r] = w
    /\ wpc[w] = "wait" /\ wop[w] = "insert"
    /\ rpc[r] = "exit"
    /\ rresult[r] = wcs[w]

\* C32: until hasTier2_ is true no jit-entry slot points into the lazy stub
\* block that createTier2LazyEntryStubs made for tier 2.
C32_Tier2StubsUnreachableBeforeCommit ==
  hasTier2 = FALSE =>
    \A f \in FuncIndices : \A g \in FuncIndices : jit[f] # StubEntry(OptimizedTier, g)

\* The tier-2 stubs exist and tier2_ is set, hasTier2_ is still false, and the
\* slot of a function that has a tier-2 stub still points to its baseline stub.
C32_Witness ==
  /\ cpc = "publish"
  /\ hasTier2 = FALSE
  /\ \E f \in t2stubs : jit[f] = StubEntry(BaselineTier, f)

\* C33: bestTier() changes only from Baseline to Optimized, in the step that
\* makes hasTier2_ true; funcCodeBlock of an import returns sharedStubs
\* whatever the tier state, and of a defined function the block of the tier
\* that its bestTier() returned.
C33_BestTierMonotone ==
  /\ [][/\ bestTier' # bestTier =>
             (bestTier = BaselineTier /\ bestTier' = OptimizedTier)
        /\ (hasTier2' # hasTier2) = (bestTier' # bestTier)
        /\ \A t \in Threads :
             /\ (epc[t] = "idle" /\ epc'[t] = "ret") =>
                  (eret'[t] = sharedStubs /\ eret'[t] = SharedStubsBlock)
             /\ (epc[t] = "idle" /\ epc'[t] = "codeBlock") =>
                  eobs'[t] = (bestTier = OptimizedTier)
             /\ (epc[t] = "codeBlock" /\ epc'[t] = "ret") =>
                  /\ eret'[t] = codeBlock(IF eobs[t] THEN OptimizedTier ELSE BaselineTier)
                  /\ eret'[t] # Null
                  /\ CodeBlockTier(eret'[t]) =
                       (IF eobs[t] THEN OptimizedTier ELSE BaselineTier)
                  /\ eobs[t] => bestTier = OptimizedTier
       ]_vars
  /\ [](cpc = "done" => bestTier = OptimizedTier)

\* With tier 2 published, one call has returned the tier-2 block for a defined
\* function and another the shared stubs for an import.
C33_Witness ==
  \E t \in Threads, u \in Threads :
    /\ hasTier2 = TRUE
    /\ epc[t] = "ret" /\ eret[t] = Tier2Block
    /\ epc[u] = "ret" /\ eret[u] = SharedStubsBlock

\* C34: lazyExports is sorted by strictly increasing funcIndex; an entry is
\* added only under the write guard for a function that has none, and the
\* tier-2 upgrade only retargets entries from a baseline to an optimized stub.
C34_LazyExportsSorted ==
  /\ [](\A i \in 1..Len(lazyExports) : \A j \in 1..Len(lazyExports) :
          i < j => lazyExports[i].funcIndex < lazyExports[j].funcIndex)
  /\ [][lazyExports' # lazyExports =>
          /\ dataLock # Null
          /\ \/ /\ Len(lazyExports') = Len(lazyExports) + 1
                /\ \E f \in LazyFuncs(lazyExports') \ LazyFuncs(lazyExports) :
                     /\ lookupLazyInterpEntry(lazyExports, f) = Null
                     /\ \A g \in LazyFuncs(lazyExports) :
                          LazyKind(lazyExports', g) = LazyKind(lazyExports, g)
             \/ /\ dataLock = CompilerThread
                /\ Len(lazyExports') = Len(lazyExports)
                /\ \A i \in 1..Len(lazyExports) :
                     /\ lazyExports'[i].funcIndex = lazyExports[i].funcIndex
                     /\ lazyExports'[i].funcKind = OptimizedTier
       ]_vars

\* Two functions have a LazyFuncExport, both retargeted to tier 2, and a call
\* for the function of the first entry has returned its stub.
C34_Witness ==
  /\ Len(lazyExports) = 2
  /\ cpc = "done"
  /\ \A i \in 1..2 : lazyExports[i].funcKind = OptimizedTier
  /\ \E t \in racers : epc[t] = "ret" /\ efunc[t] = lazyExports[1].funcIndex
                         /\ eret[t] # Null

\* insert(cb) has exchanged the vectors or returned true, and no remove(cb)
\* has exchanged them since.
VisibleInserted(cb) ==
  \/ \E w \in Writers : wcs[w] = cb /\ wop[w] = "insert"
                          /\ wpc[w] \in {"wait", "second", "return"}
  \/ \E w \in Writers : wcs[w] = cb /\ wop[w] = "remove" /\ wpc[w] \in {"first", "swap"}
  \/ /\ \A w \in Writers : wcs[w] # cb
     /\ cb \in BlockSet(segments1) /\ cb \in BlockSet(segments2)

\* remove(cb) has exchanged the vectors or returned, and no insert(cb) has
\* exchanged them since.
VisibleRemoved(cb) ==
  \/ \E w \in Writers : wcs[w] = cb /\ wop[w] = "remove"
                          /\ wpc[w] \in {"wait", "second", "return"}
  \/ \E w \in Writers : wcs[w] = cb /\ wop[w] = "insert" /\ wpc[w] \in {"first", "swap"}
  \/ /\ \A w \in Writers : wcs[w] # cb
     /\ cb \notin BlockSet(segments1) /\ cb \notin BlockSet(segments2)

\* C35: an update is visible from the swap on: a lookup that reads the
\* published pointer after insert(B) has swapped or returned finds B for every
\* pc of B, and one that reads it after remove(B) has swapped or returned
\* returns null for every pc of B.
C35_VisibleAtTheSwap ==
  /\ [][\A r \in Readers :
          (rpc[r] = "load" /\ rpc'[r] = "search") =>
            \A cb \in Blocks :
              /\ VisibleInserted(cb) => cb \in rlive'[r]
              /\ VisibleRemoved(cb) => cb \notin rlive'[r]
       ]_vars
  /\ [](\A r \in Readers :
          rpc[r] = "exit" =>
            \A cb \in Blocks :
              containsCodePC(cb, rpcval[r]) =>
                /\ cb \in rlive[r] => rresult[r] = cb
                /\ cb \notin rlive[r] => rresult[r] = Null)

\* A lookup that started while insert(B) was spinning in swapAndWait() is
\* about to return B, and the other block, removed before, is not found
\* any more.
C35_Witness ==
  \E r \in Readers, w \in Writers, cb \in Blocks :
    /\ wpc[w] = "wait" /\ wop[w] = "insert" /\ wcs[w] = cb
    /\ rpc[r] = "exit" /\ rresult[r] = cb /\ rsnap[r] = readonlyCodeBlocks
    /\ \E other \in Blocks \ {cb} : VisibleRemoved(other)

\* The order of the steps of insert and remove; an insert whose first
\* insertion fails returns from "first".
WriterTransitions ==
  {<<"idle", "first">>, <<"first", "swap">>, <<"first", "idle">>,
   <<"swap", "wait">>, <<"wait", "second">>, <<"second", "return">>,
   <<"return", "idle">>}

\* C36: mutableCodeBlocks_ and readonlyCodeBlocks_ always point to the two
\* different vectors segments1_ and segments2_; they change only in the
\* exchange of swapAndWait(), which swaps them, and an insert or remove that
\* returns from its end has passed that exchange once.
C36_RolesAlwaysDistinct ==
  /\ [](/\ mutableCodeBlocks \in Vectors
        /\ readonlyCodeBlocks \in Vectors
        /\ mutableCodeBlocks # readonlyCodeBlocks)
  /\ [][/\ (<<mutableCodeBlocks, readonlyCodeBlocks>>' # <<mutableCodeBlocks, readonlyCodeBlocks>>)
            = (\E w \in Writers : wpc[w] = "swap" /\ wpc'[w] = "wait")
        /\ (\E w \in Writers : wpc[w] = "swap" /\ wpc'[w] = "wait") =>
             /\ mutableCodeBlocks' = readonlyCodeBlocks
             /\ readonlyCodeBlocks' = mutableCodeBlocks
        /\ \A w \in Writers :
             wpc'[w] # wpc[w] => <<wpc[w], wpc'[w]>> \in WriterTransitions
       ]_vars

\* An insert and then a remove have each swapped the roles once: the remove
\* is about to return with the roles as the constructor set them.
C36_Witness ==
  \E w \in Writers :
    /\ wpc[w] = "return" /\ wop[w] = "remove"
    /\ mutableCodeBlocks = "segments1_" /\ readonlyCodeBlocks = "segments2_"
    /\ segments1 = <<>> /\ segments2 = <<>>

\* C37: an insert whose first insertion fails returns false before
\* swapAndWait(): the vectors, the two pointers and numActiveLookups_ are as
\* they were and the mutex is released.
C37_FailedInsertChangesNothing ==
  [][\A w \in Writers :
       (wpc[w] = "first" /\ wpc'[w] = "idle") =>
         /\ wop[w] = "insert"
         /\ mutatorsMutex = w /\ mutatorsMutex' = Null
         /\ segments1' = segments1 /\ segments2' = segments2
         /\ mutableCodeBlocks' = mutableCodeBlocks
         /\ readonlyCodeBlocks' = readonlyCodeBlocks
         /\ numActiveLookups' = numActiveLookups
         /\ aborted' = "no"
         /\ wcs[w] \notin BlockSet(segments1') \cup BlockSet(segments2')
    ]_vars

\* The insert of a block has returned false (its registration is still to be
\* reported as failed): the mutex is free, the block is in neither vector and
\* the block registered before is in both.
C37_Witness ==
  \E cb \in Blocks, other \in Blocks :
    /\ life[cb] = "registering"
    /\ \A w \in Writers : wcs[w] # cb
    /\ mutatorsMutex = Null
    /\ cb \notin BlockSet(segments1) \cup BlockSet(segments2)
    /\ life[other] = "registered"
    /\ segments1 = <<other>> /\ segments2 = <<other>>

\* C38: on a segment with lengthBytes_ <= capacityBytes_, hasSpace(n) is true
\* exactly when lengthBytes_ + n <= capacityBytes_ in unbounded integers, for
\* every size_t n: no n is accepted through a wrap-around.
C38_HasSpaceIsExact ==
  (segState = "live" /\ lengthBytes <= capacityBytes) =>
    \A n \in 0..(SizeMod - 1) :
      hasSpace(n) = (lengthBytes + n <= capacityBytes)

\* A partly used segment: what is left is accepted, and the largest size_t is
\* refused although the wrapped difference capacity - n is above the length.
C38_Witness ==
  /\ segState = "live"
  /\ 0 < lengthBytes /\ lengthBytes < capacityBytes
  /\ Len(claims) > 0
  /\ hasSpace(capacityBytes - lengthBytes)
  /\ ~hasSpace(capacityBytes - lengthBytes + 1)
  /\ ~hasSpace(SizeMod - 1)
  /\ lengthBytes <= (capacityBytes - (SizeMod - 1)) % SizeMod

\* The function indices an insert or a lookup is called with.
InsertIndices == 0..(NumFuncImports + NumFuncs)

\* C39: for a map made by createDense(start, n), every index looks up to
\* BAD_CODE_RANGE at first; insert(f, r) with start <= f < start + n returns
\* true, makes lookup(f) return r and leaves every other lookup unchanged;
\* insert with f outside the range (f < start included) returns false and
\* changes nothing, and lookup of such f returns BAD_CODE_RANGE.
C39_DenseMapInsertLookup ==
  /\ [][\A start \in 0..NumFuncImports, n \in 0..NumFuncs, dbg \in BOOLEAN :
          CreateDense(start, n, dbg) =>
            \A f \in InsertIndices : FuncToCodeRangeLookup(f)' = BAD_CODE_RANGE]_vars
  /\ [][\A f \in InsertIndices, r \in CodeRangeIndices :
          FuncToCodeRangeInsert(f, r) =>
            IF startFuncIndex <= f /\ f < startFuncIndex + Len(funcToCodeRange)
            THEN /\ insertResult' = "true"
                 /\ FuncToCodeRangeLookup(f)' = r
                 /\ \A g \in InsertIndices \ {f} :
                      FuncToCodeRangeLookup(g)' = FuncToCodeRangeLookup(g)
            ELSE /\ insertResult' = "false"
                 /\ funcToCodeRange' = funcToCodeRange
                 /\ startFuncIndex' = startFuncIndex
                 /\ \A g \in InsertIndices :
                      FuncToCodeRangeLookup(g)' = FuncToCodeRangeLookup(g)]_vars
  /\ [](blkState = "building" =>
          \A f \in InsertIndices :
            ~(startFuncIndex <= f /\ f < startFuncIndex + Len(funcToCodeRange)) =>
              FuncToCodeRangeLookup(f) = BAD_CODE_RANGE)

\* A map starting at index 1 with two slots: index 1 was inserted and looks up
\* to its code range, index 2 is still unset, and the last insert, of an index
\* outside the range, was refused; index 0 lies below the start.
C39_Witness ==
  /\ blkState = "building"
  /\ startFuncIndex = 1
  /\ Len(funcToCodeRange) = 2
  /\ FuncToCodeRangeLookup(1) = 1
  /\ FuncToCodeRangeLookup(2) = BAD_CODE_RANGE
  /\ FuncToCodeRangeLookup(0) = BAD_CODE_RANGE
  /\ insertResult = "false"

\* C40: setTieringEntry(i, target) writes the tiering table only in compile
\* mode Tier1, where slot i gets the target; in every other mode it leaves the
\* tiering table unchanged, and in every mode it leaves the jit-entry table
\* unchanged.
C40_TieringStoreOnlyInTier1 ==
  [][\A i \in FuncIndices, k \in {BaselineTier, OptimizedTier} :
       JumpSetTieringEntry(i, FuncEntry(k, i)) =>
         /\ jit' = jit
         /\ mode_ = "Tier1" => tiering' = [tiering EXCEPT ![i] = FuncEntry(k, i)]
         /\ mode_ # "Tier1" => tiering' = tiering]_vars

\* Tables of a mode other than Tier1 after setTieringEntry was called with the
\* optimized entry of a defined function: the slot still holds the tier-1 entry,
\* and a jit entry is installed.
C40_Witness ==
  /\ mode_ \in CompileModes \ {"Tier1"}
  /\ \E i \in DefinedFuncs :
       /\ tieringCall = <<i, FuncEntry(OptimizedTier, i)>>
       /\ tiering[i] = FuncEntry(BaselineTier, i)
  /\ \E f \in DefinedFuncs : jit[f] # Null

====
